---- MODULE Spec2Model ----
(***************************************************************************)
(* retronews: the HTML-to-text renderer (html_render and the functions it  *)
(* calls in src/retronews.py).                                             *)
(*                                                                         *)
(* A Python str is a sequence of one-character strings.  The NUL character *)
(* "\x00" (the line-break sentinel) is written NUL, any other control      *)
(* character is written CTL, the backtick is written BACKTICK.  Python's    *)
(* None is the node id 0.                                                  *)
(***************************************************************************)
EXTENDS Integers, Sequences, FiniteSets, TLC

VARIABLES
    html,          \* the document handed to html_render: its events, in order
    pos,           \* how many events of html the parser has handled
    width,         \* the width html_node_render_block renders the root node at
    nodes,         \* the HTMLNode objects, by id (a sequence of records)
    current_node,  \* HTMLParser.current_node (a node id)
    pre_level,     \* HTMLParser.pre_level
    pc,            \* position in html_render: "feed", "text", "render", "done"
    out,           \* the value html_render returns, or ValueError
    suspended,     \* a second call of html_render, while this one is running
    app,           \* the AppState of app_main, with the Message objects and the db
    turn           \* how many keys the loop of app_main has read

vars == <<html, pos, width, nodes, current_node, pre_level, pc, out, suspended, app, turn>>

(***************************************************************************)
(* Bounds of the model.                                                    *)
(***************************************************************************)
MaxWidth == 6         \* the widest of the small widths a document is rendered at
MaxDepth == 3         \* nesting depth of the nested documents
MaxLen == 7           \* characters of the text of a paragraph
MaxStem == 2          \* characters of a link text before its dots
MaxHref == 3          \* characters of an href
MaxCode == 4          \* characters of the content of a pre/code block
MaxItems == 3         \* items of a list
MaxEvents == 4        \* events (tags and data) of a list document
MaxSpace == 4         \* characters of a paragraph of words and whitespace
MaxCallEvents == 2    \* events of a document of one of several calls
MaxKeys == 1          \* keys the loop of app_main reads

DefaultWidth == 70    \* html_node_render_block(node, width=70)

None == 0
NUL == "NUL"
CTL == "CTL"
BACKTICK == "BACKTICK"
NL == "\n"
ValueError == <<"ValueError">>

(***************************************************************************)
(* str helpers                                                             *)
(***************************************************************************)
STRIP_CHARS == {"\r", "\n", "\t", " "}

\* str.isspace() of the characters of the model; NUL and CTL are not whitespace
WHITESPACE == {"\r", "\n", "\t", " "}

SetMin(S) == CHOOSE x \in S : \A y \in S : x <= y
SetMax(S) == CHOOSE x \in S : \A y \in S : x >= y

RECURSIVE str_concat(_)
str_concat(ss) == IF ss = <<>> THEN <<>> ELSE Head(ss) \o str_concat(Tail(ss))

RECURSIVE str_join(_, _)
str_join(sep, ss) ==
    IF ss = <<>> THEN <<>>
    ELSE IF Len(ss) = 1 THEN ss[1]
    ELSE ss[1] \o sep \o str_join(sep, Tail(ss))

str_rstrip(s, chars) ==
    LET keep == {i \in 1..Len(s) : s[i] \notin chars}
    IN IF keep = {} THEN <<>> ELSE SubSeq(s, 1, SetMax(keep))

str_lstrip(s, chars) ==
    LET keep == {i \in 1..Len(s) : s[i] \notin chars}
    IN IF keep = {} THEN <<>> ELSE SubSeq(s, SetMin(keep), Len(s))

str_strip(s, chars) == str_lstrip(str_rstrip(s, chars), chars)

str_startswith(s, prefix) ==
    Len(prefix) <= Len(s) /\ SubSeq(s, 1, Len(prefix)) = prefix

str_endswith(s, suffix) ==
    Len(suffix) <= Len(s) /\ SubSeq(s, Len(s) - Len(suffix) + 1, Len(s)) = suffix

\* s.split(sep) for a one-character separator: never returns the empty list
RECURSIVE str_split(_, _)
str_split(s, sep) ==
    LET at == {i \in 1..Len(s) : s[i] = sep}
    IN IF at = {} THEN <<s>>
       ELSE <<SubSeq(s, 1, SetMin(at) - 1)>> \o str_split(SubSeq(s, SetMin(at) + 1, Len(s)), sep)

\* c * n
str_repeat(c, n) == [i \in 1..n |-> c]

\* the characters of text that are not marked, where marked[i] is <<character, mark>>
Unmarked(marked) ==
    LET kept == SelectSeq(marked, LAMBDA m : ~m[2])
    IN [i \in 1..Len(kept) |-> kept[i][1]]

(***************************************************************************)
(* text_sanitize: drop the control characters other than "\n" and "\t"     *)
(***************************************************************************)
CONTROL_CHARS == {NUL, CTL, "\r", "\n", "\t"}

text_sanitize(text) ==
    SelectSeq(text, LAMBDA c : c \in {"\n", "\t"} \/ c \notin CONTROL_CHARS)

(***************************************************************************)
(* The node tree                                                           *)
(***************************************************************************)
HTML_BLOCK_TAGS == {"root", "p", "pre", "blockquote", "ul", "ol", "li", "hr"}
HTML_INLINE_TAGS == {"code", "a", "em", "strong", "b", "br"}
HTML_KNOWN_TAGS == HTML_BLOCK_TAGS \cup HTML_INLINE_TAGS
HTML_AUTOCLOSE_TAGS == {"hr", "br"}

HTMLNode(tag, attrs, text, pre) ==
    [tag |-> tag, parent |-> None, prev_sibling |-> None, next_sibling |-> None,
     first_child |-> None, last_child |-> None, attrs |-> attrs, text |-> text, pre |-> pre]

\* dict(attrs).get(key, ""): attrs is the parser's list of (name, value) pairs
RECURSIVE attrs_get(_, _)
attrs_get(attrs, key) ==
    IF attrs = <<>> THEN <<>>
    ELSE IF attrs[Len(attrs)][1] = key THEN attrs[Len(attrs)][2]
    ELSE attrs_get(SubSeq(attrs, 1, Len(attrs) - 1), key)

RECURSIVE html_node_siblings_from(_, _)
html_node_siblings_from(ns, node) ==
    IF node = None THEN <<>>
    ELSE <<node>> \o html_node_siblings_from(ns, ns[node].next_sibling)

html_node_children(ns, parent) == html_node_siblings_from(ns, ns[parent].first_child)

\* appends the node object `child` (not yet in the tree) as node id Len(ns) + 1
html_node_append(ns, parent, child) ==
    LET id == Len(ns) + 1
        last == ns[parent].last_child
        linked == [child EXCEPT !.parent = parent, !.prev_sibling = last]
        ns1 == IF ns[parent].first_child = None
               THEN [ns EXCEPT ![parent].first_child = id]
               ELSE ns
        ns2 == IF last # None
               THEN [ns1 EXCEPT ![last].next_sibling = id]
               ELSE ns1
        ns3 == [ns2 EXCEPT ![parent].last_child = id]
    IN Append(ns3, linked)

\* html_node_unlink that leaves the prev_sibling of the next sibling as it was
html_node_unlink_forward(ns, node) ==
    LET prev == ns[node].prev_sibling
        next == ns[node].next_sibling
        par == ns[node].parent
        ns1 == IF prev # None THEN [ns EXCEPT ![prev].next_sibling = next] ELSE ns
        ns3 == IF par # None /\ ns1[par].first_child = node
               THEN [ns1 EXCEPT ![par].first_child = next] ELSE ns1
        ns4 == IF par # None /\ ns3[par].last_child = node
               THEN [ns3 EXCEPT ![par].last_child = prev] ELSE ns3
    IN [ns4 EXCEPT ![node].parent = None, ![node].prev_sibling = None,
                   ![node].next_sibling = None]

html_node_unlink(ns, node) ==
    LET prev == ns[node].prev_sibling
        next == ns[node].next_sibling
        par == ns[node].parent
        ns1 == IF prev # None THEN [ns EXCEPT ![prev].next_sibling = next] ELSE ns
        ns2 == IF next # None THEN [ns1 EXCEPT ![next].prev_sibling = prev] ELSE ns1
        ns3 == IF par # None /\ ns2[par].first_child = node
               THEN [ns2 EXCEPT ![par].first_child = next] ELSE ns2
        ns4 == IF par # None /\ ns3[par].last_child = node
               THEN [ns3 EXCEPT ![par].last_child = prev] ELSE ns3
    IN [ns4 EXCEPT ![node].parent = None, ![node].prev_sibling = None,
                   ![node].next_sibling = None]

(***************************************************************************)
(* HTMLParser                                                              *)
(***************************************************************************)
root_node == 1

\* endtag_walk that stops in the matching node instead of leaving it
RECURSIVE endtag_walk_into(_, _, _)
endtag_walk_into(ns, node, tag) ==
    IF ns[node].parent = None THEN node
    ELSE IF ns[node].tag = tag THEN node
    ELSE endtag_walk_into(ns, ns[node].parent, tag)

\* the while loop of handle_endtag: the node the parser ends up in
RECURSIVE endtag_walk(_, _, _)
endtag_walk(ns, node, tag) ==
    IF ns[node].parent = None THEN node
    ELSE IF ns[node].tag = tag THEN ns[node].parent
    ELSE endtag_walk(ns, ns[node].parent, tag)

\* endtag that leaves the current node alone when no open element matches
endtag_matched_only(ns, cur, lvl, tag) ==
    IF tag \notin HTML_KNOWN_TAGS THEN [current_node |-> cur, pre_level |-> lvl]
    ELSE [current_node |-> IF ns[endtag_walk_into(ns, cur, tag)].tag = tag
                           THEN endtag_walk(ns, cur, tag) ELSE cur,
          pre_level |-> IF tag = "pre" THEN (IF lvl - 1 > 0 THEN lvl - 1 ELSE 0) ELSE lvl]

\* handle_endtag as a function of the parser's fields: [current_node, pre_level]
endtag(ns, cur, lvl, tag) ==
    IF tag \notin HTML_KNOWN_TAGS THEN [current_node |-> cur, pre_level |-> lvl]
    ELSE [current_node |-> endtag_walk(ns, cur, tag),
          pre_level |-> IF tag = "pre" THEN (IF lvl - 1 > 0 THEN lvl - 1 ELSE 0) ELSE lvl]

\* autoclose that leaves an hr or br open
autoclose_never(ns, cur, lvl) == [current_node |-> cur, pre_level |-> lvl]

\* the first statement of handle_data and handle_starttag
autoclose(ns, cur, lvl) ==
    IF ns[cur].tag \in HTML_AUTOCLOSE_TAGS THEN endtag(ns, cur, lvl, ns[cur].tag)
    ELSE [current_node |-> cur, pre_level |-> lvl]

\* one event of the tokenized document: a start tag, an end tag or character data
Event(kind, tag, attrs, data) == [kind |-> kind, tag |-> tag, attrs |-> attrs, data |-> data]
StartTag(tag) == Event("start", tag, <<>>, <<>>)
StartTagHref(tag, href) == Event("start", tag, <<<<"href", href>>>>, <<>>)
EndTag(tag) == Event("end", tag, <<>>, <<>>)
Data(data) == Event("data", "", <<>>, data)
\* the parser reports character data only when there is some
DataIf(data) == IF data = <<>> THEN <<>> ELSE <<Data(data)>>

\* html_render sanitizes the document before the parser sees it
sanitize_attrs(attrs) ==
    [i \in 1..Len(attrs) |-> <<attrs[i][1], text_sanitize(attrs[i][2])>>]

\* parser.feed is at an event of the given kind
Feeding(kind) == pc = "feed" /\ pos < Len(html) /\ html[pos + 1].kind = kind

handle_data ==
    /\ Feeding("data")
    /\ LET data == text_sanitize(html[pos + 1].data)
           p == autoclose(nodes, current_node, pre_level)
           node == HTMLNode("text", <<>>, data, p.pre_level > 0)
       IN /\ nodes' = html_node_append(nodes, p.current_node, node)
          /\ current_node' = p.current_node
          /\ pre_level' = p.pre_level
    /\ pos' = pos + 1
    /\ UNCHANGED <<html, width, pc, out, suspended, app, turn>>

handle_starttag ==
    /\ Feeding("start")
    /\ LET tag == html[pos + 1].tag
           attrs == sanitize_attrs(html[pos + 1].attrs)
           p == autoclose(nodes, current_node, pre_level)
           lvl == IF tag = "pre" THEN p.pre_level + 1 ELSE p.pre_level
           node == HTMLNode(tag, attrs, <<>>, lvl > 0)
       IN IF tag \notin HTML_KNOWN_TAGS
          THEN /\ nodes' = nodes
               /\ current_node' = p.current_node
               /\ pre_level' = p.pre_level
          ELSE /\ nodes' = html_node_append(nodes, p.current_node, node)
               /\ current_node' = Len(nodes) + 1
               /\ pre_level' = lvl
    /\ pos' = pos + 1
    /\ UNCHANGED <<html, width, pc, out, suspended, app, turn>>

handle_endtag ==
    /\ Feeding("end")
    /\ LET p == endtag(nodes, current_node, pre_level, html[pos + 1].tag)
       IN /\ current_node' = p.current_node
          /\ pre_level' = p.pre_level
    /\ pos' = pos + 1
    /\ UNCHANGED <<html, width, nodes, pc, out, suspended, app, turn>>

(***************************************************************************)
(* html_node_process_inline: flatten every inline subtree into a text node *)
(***************************************************************************)
\* inline_text without the expansion of shortened links
inline_text_unexpanded(node, text) ==
    IF node.tag = "text" THEN node.text
    ELSE IF node.tag = "a" /\ text # attrs_get(node.attrs, "href")
         THEN text \o <<" ">> \o attrs_get(node.attrs, "href")
         ELSE text

inline_text(node, text) ==
    IF node.tag = "text" THEN node.text
    ELSE IF node.tag = "br" THEN <<NUL>>
    ELSE IF node.tag = "em" \/ node.tag = "i" THEN <<"/">> \o text \o <<"/">>
    ELSE IF node.tag = "strong" \/ node.tag = "b" THEN <<"*">> \o text \o <<"*">>
    ELSE IF node.tag = "code" /\ ~node.pre THEN <<BACKTICK>> \o text \o <<BACKTICK>>
    ELSE IF node.tag = "a" THEN
        LET href == attrs_get(node.attrs, "href")
        IN IF str_endswith(text, <<".", ".", ".">>)
              /\ str_startswith(href, SubSeq(text, 1, Len(text) - 3))
           THEN href
           ELSE IF text # href THEN text \o <<" ">> \o href
           ELSE text
    ELSE text

\* both return [nodes |-> the tree after the call, text |-> the returned str]
RECURSIVE html_node_process_inline(_, _, _), process_inline_children(_, _, _)

\* html_node_process_inline that flattens a block element inside an inline
\* element as it does outside one
html_node_process_inline_resetting(ns, node, inline) ==
    LET inl == ns[node].tag \notin HTML_BLOCK_TAGS
        r == process_inline_children(ns, html_node_children(ns, node), inl)
        text == inline_text(r.nodes[node], r.text)
    IN IF ~inl THEN [nodes |-> r.nodes, text |-> <<>>]
       ELSE [nodes |-> [r.nodes EXCEPT ![node].tag = "text", ![node].text = text,
                                       ![node].first_child = None,
                                       ![node].last_child = None],
             text |-> text]

html_node_process_inline(ns, node, inline) ==
    LET inl == inline \/ ns[node].tag \notin HTML_BLOCK_TAGS
        r == process_inline_children(ns, html_node_children(ns, node), inl)
        text == inline_text(r.nodes[node], r.text)
    IN IF ~inl THEN [nodes |-> r.nodes, text |-> <<>>]
       ELSE [nodes |-> [r.nodes EXCEPT ![node].tag = "text", ![node].text = text,
                                       ![node].first_child = None,
                                       ![node].last_child = None],
             text |-> text]

process_inline_children(ns, children, inline) ==
    IF children = <<>> THEN [nodes |-> ns, text |-> <<>>]
    ELSE LET r == html_node_process_inline(ns, Head(children), inline)
             rest == process_inline_children(r.nodes, Tail(children), inline)
         IN [nodes |-> rest.nodes, text |-> r.text \o rest.text]

(***************************************************************************)
(* html_node_process_text: merge, trim and prune the text nodes            *)
(***************************************************************************)
\* re.sub(r"[\r\n\t ]+", " ", text)
\* sub_whitespace that keeps the length of every whitespace run
sub_whitespace_uncollapsed(text) ==
    [i \in 1..Len(text) |-> IF text[i] \in STRIP_CHARS THEN " " ELSE text[i]]

sub_whitespace(text) ==
    Unmarked([i \in 1..Len(text) |->
        <<IF text[i] \in STRIP_CHARS THEN " " ELSE text[i],
          i > 1 /\ text[i] \in STRIP_CHARS /\ text[i - 1] \in STRIP_CHARS>>])

\* text.replace("\x00", "\n")
replace_nul(text) == [i \in 1..Len(text) |-> IF text[i] = NUL THEN NL ELSE text[i]]

\* re.sub(r" *\n *", "\n", text): the spaces of a run of spaces next to a newline go
sub_newline(text) ==
    LET n == Len(text)
        spaces(a, b) == \A k \in a..b : text[k] = " "
    IN Unmarked([i \in 1..n |->
        <<text[i],
          /\ text[i] = " "
          /\ \/ \E j \in (i + 1)..n : text[j] = NL /\ spaces(i + 1, j - 1)
             \/ \E j \in 1..(i - 1) : text[j] = NL /\ spaces(j + 1, i - 1)>>])

\* html_node_trim_whitespace treating preformatted text like any other text
html_node_trim_whitespace_collapsing(node) ==
    sub_newline(replace_nul(sub_whitespace(str_strip(node.text, STRIP_CHARS))))

\* the new node.text
html_node_trim_whitespace(node) ==
    IF node.pre THEN str_rstrip(node.text, STRIP_CHARS)
    ELSE sub_newline(replace_nul(sub_whitespace(str_strip(node.text, STRIP_CHARS))))

RECURSIVE merge_text_nodes(_, _)
merge_text_nodes(ns, children) ==
    IF children = <<>> THEN ns
    ELSE LET child == Head(children)
             prev == ns[child].prev_sibling
         IN IF ns[child].tag = "text" /\ prev # None /\ ns[prev].tag = "text"
               /\ ns[child].pre = ns[prev].pre
            THEN merge_text_nodes(
                     html_node_unlink(
                         [ns EXCEPT ![child].text = ns[prev].text \o ns[child].text], prev),
                     Tail(children))
            ELSE merge_text_nodes(ns, Tail(children))

RECURSIVE trim_text_nodes(_, _)
trim_text_nodes(ns, children) ==
    IF children = <<>> THEN ns
    ELSE LET child == Head(children)
         IN IF ns[child].tag = "text"
            THEN trim_text_nodes(
                     [ns EXCEPT ![child].text = html_node_trim_whitespace(ns[child])],
                     Tail(children))
            ELSE trim_text_nodes(ns, Tail(children))

RECURSIVE prune_text_nodes(_, _)
prune_text_nodes(ns, children) ==
    IF children = <<>> THEN ns
    ELSE LET child == Head(children)
         IN IF ns[child].tag = "text" /\ ns[child].text = <<>>
            THEN prune_text_nodes(html_node_unlink(ns, child), Tail(children))
            ELSE prune_text_nodes(ns, Tail(children))

\* both return the tree after the call
RECURSIVE html_node_process_text(_, _), process_text_children(_, _)
html_node_process_text(ns, node) ==
    LET ns1 == process_text_children(ns, html_node_children(ns, node))
        ns2 == merge_text_nodes(ns1, html_node_children(ns1, node))
        ns3 == trim_text_nodes(ns2, html_node_children(ns2, node))
    IN prune_text_nodes(ns3, html_node_children(ns3, node))

process_text_children(ns, children) ==
    IF children = <<>> THEN ns
    ELSE LET processed == html_node_process_text(ns, Head(children))
         IN IF processed = ns THEN process_text_children(ns, Tail(children))
            ELSE process_text_children(processed, Tail(children))

(***************************************************************************)
(* textwrap.wrap(text, width, subsequent_indent=indent,                    *)
(*               break_on_hyphens=False, break_long_words=False)           *)
(***************************************************************************)
TabSize == 8

\* str.expandtabs(8), col being the column text starts in
RECURSIVE expandtabs(_, _)
expandtabs(text, col) ==
    LET tabs == {i \in 1..Len(text) : text[i] = "\t"}
    IN IF tabs = {} THEN text
       ELSE LET t == SetMin(tabs)
                breaks == {i \in 1..(t - 1) : text[i] \in {"\n", "\r"}}
                c == IF breaks = {} THEN col + t - 1 ELSE t - 1 - SetMax(breaks)
                n == TabSize - (c % TabSize)
            IN SubSeq(text, 1, t - 1) \o str_repeat(" ", n)
               \o expandtabs(SubSeq(text, t + 1, Len(text)), c + n)

\* TextWrapper._munge_whitespace: expand tabs, then every whitespace character to " "
munge_whitespace(text) ==
    LET t == expandtabs(text, 0)
    IN [i \in 1..Len(t) |-> IF t[i] \in WHITESPACE THEN " " ELSE t[i]]

\* TextWrapper._split with wordsep_simple_re: the runs of whitespace and of other characters
RECURSIVE split_chunks(_)
split_chunks(text) ==
    IF text = <<>> THEN <<>>
    ELSE LET other == {i \in 1..Len(text) : (text[i] \in WHITESPACE) # (text[1] \in WHITESPACE)}
             n == IF other = {} THEN Len(text) ELSE SetMin(other) - 1
         IN <<SubSeq(text, 1, n)>> \o split_chunks(SubSeq(text, n + 1, Len(text)))

is_blank(chunk) == \A i \in 1..Len(chunk) : chunk[i] \in WHITESPACE

\* the inner while loop of _wrap_chunks: how many of the chunks fit on the line
RECURSIVE fit_count(_, _, _)
fit_count(chunks, cur_len, w) ==
    IF chunks # <<>> /\ cur_len + Len(chunks[1]) <= w
    THEN 1 + fit_count(Tail(chunks), cur_len + Len(chunks[1]), w)
    ELSE 0

\* TextWrapper._wrap_chunks; started is "lines" being non-empty
RECURSIVE wrap_chunks(_, _, _, _)
wrap_chunks(chunks, w, subsequent_indent, started) ==
    IF chunks = <<>> THEN <<>>
    ELSE
    LET indent == IF started THEN subsequent_indent ELSE <<>>
        lw == w - Len(indent)
        chunks1 == IF is_blank(chunks[1]) /\ started THEN Tail(chunks) ELSE chunks
        k == fit_count(chunks1, 0, lw)
        \* _handle_long_word with break_long_words=False
        k2 == IF k < Len(chunks1) /\ Len(chunks1[k + 1]) > lw /\ k = 0 THEN 1 ELSE k
        taken == SubSeq(chunks1, 1, k2)
        cur_line == IF taken # <<>> /\ is_blank(taken[Len(taken)])
                    THEN SubSeq(taken, 1, Len(taken) - 1)
                    ELSE taken
        rest == SubSeq(chunks1, k2 + 1, Len(chunks1))
    IN IF cur_line # <<>>
       THEN <<indent \o str_concat(cur_line)>> \o wrap_chunks(rest, w, subsequent_indent, TRUE)
       ELSE wrap_chunks(rest, w, subsequent_indent, started)

\* the list of lines; the caller has checked width > 0
wrap(text, w, subsequent_indent) ==
    wrap_chunks(split_chunks(munge_whitespace(text)), w, subsequent_indent, FALSE)

(***************************************************************************)
(* text_wrap, text_indent                                                  *)
(***************************************************************************)
DIGITS == {"0", "1", "2", "3", "4", "5", "6", "7", "8", "9"}

\* a QUOTE_REX that matches one "> " whatever the quote prefix is
QUOTE_REX_single(text) == IF text # <<>> /\ Head(text) = ">" THEN <<">", " ">> ELSE <<>>

\* QUOTE_REX = ^(> ?)+ : the matched prefix, "" when there is no match
RECURSIVE QUOTE_REX(_)
QUOTE_REX(text) ==
    IF text = <<>> \/ Head(text) # ">" THEN <<>>
    ELSE IF Len(text) >= 2 /\ text[2] = " "
         THEN <<">", " ">> \o QUOTE_REX(SubSeq(text, 3, Len(text)))
         ELSE <<">">> \o QUOTE_REX(Tail(text))

\* a REFERENCE_REX that never matches
REFERENCE_REX_never(text) == FALSE

\* REFERENCE_REX = ^\[\d+\][ :-]*https?://[^ ]*$ : whether text matches
REFERENCE_REX(text) ==
    /\ text # <<>> /\ Head(text) = "["
    /\ LET t1 == str_lstrip(Tail(text), DIGITS)
       IN /\ Len(t1) < Len(text) - 1
          /\ t1 # <<>> /\ Head(t1) = "]"
          /\ LET t2 == str_lstrip(Tail(t1), {" ", ":", "-"})
                 t3 == IF str_startswith(t2, <<"h", "t", "t", "p", "s">>)
                       THEN SubSeq(t2, 6, Len(t2))
                       ELSE SubSeq(t2, 5, Len(t2))
             IN /\ str_startswith(t2, <<"h", "t", "t", "p">>)
                /\ str_startswith(t3, <<":", "/", "/">>)
                /\ \A i \in 1..Len(t3) : t3[i] # " "

\* a str, or ValueError when textwrap.wrap raises (width <= 0)
text_wrap(text, w) ==
    IF Len(text) = 0 THEN <<>>
    ELSE IF str_startswith(text, <<" ", " ">>) THEN text
    ELSE IF REFERENCE_REX(text) THEN text
    ELSE IF w <= 0 THEN ValueError
    ELSE LET lines == wrap(text, w, QUOTE_REX(text))
         IN str_join(<<NL>>, [i \in 1..Len(lines) |-> str_rstrip(lines[i], WHITESPACE)])

\* text_indent that keeps the trailing whitespace of every line
text_indent_unstripped(text, initial, recurring) ==
    LET lines == str_split(text, NL)
    IN str_join(<<NL>>,
                [i \in 1..Len(lines) |-> (IF i = 1 THEN initial ELSE recurring) \o lines[i]])

\* text_indent(text, initial, recurring); text_indent(text, initial) is recurring = initial
text_indent(text, initial, recurring) ==
    LET lines == str_split(text, NL)
    IN str_join(<<NL>>,
                [i \in 1..Len(lines) |->
                    str_rstrip((IF i = 1 THEN initial ELSE recurring) \o lines[i], WHITESPACE)])

(***************************************************************************)
(* html_node_render_block                                                  *)
(***************************************************************************)
\* the part of a non-preformatted text child, or ValueError
render_text(text, w) ==
    LET ps == str_split(text, NL)
        subparts == [i \in 1..Len(ps) |-> text_wrap(ps[i], w)]
    IN IF \E i \in 1..Len(ps) : subparts[i] = ValueError THEN ValueError
       ELSE str_join(<<NL>>, subparts)

\* separated without the exception for list items
separated_always(child) == child.next_sibling # None

\* whether an empty part follows the part of child
separated(child) == child.next_sibling # None /\ child.tag # "li"

\* child_width leaving no room for the prefixes
child_width_unreduced(tag, w) == w

\* the width left to the children of a node
child_width(tag, w) == IF tag = "blockquote" \/ tag = "li" \/ tag = "pre" THEN w - 2 ELSE w

RECURSIVE html_node_render_block(_, _, _), render_children(_, _, _)

\* render_children wrapping preformatted text like any other text
render_children_wrapping(ns, children, w) ==
    IF children = <<>> THEN <<>>
    ELSE LET child == ns[Head(children)]
             part == IF child.tag = "text" THEN render_text(child.text, w)
                     ELSE html_node_render_block(ns, Head(children), w)
         IN <<part>> \o (IF separated(child) THEN <<<<>>>> ELSE <<>>)
            \o render_children(ns, Tail(children), w)

\* both return a str, or ValueError when a text_wrap below raises
html_node_render_block(ns, node, w) ==
    LET w2 == child_width(ns[node].tag, w)
        parts == (IF ns[node].tag = "hr" THEN <<str_repeat("-", w2)>> ELSE <<>>)
                 \o render_children(ns, html_node_children(ns, node), w2)
        text == str_join(<<NL>>, parts)
    IN IF \E i \in 1..Len(parts) : parts[i] = ValueError THEN ValueError
       ELSE IF ns[node].tag = "blockquote" THEN text_indent(text, <<">", " ">>, <<">", " ">>)
       ELSE IF ns[node].tag = "pre" THEN text_indent(text, <<"|", " ">>, <<"|", " ">>)
       ELSE IF ns[node].tag = "li" THEN text_indent(text, <<"-", " ">>, <<" ", " ">>)
       ELSE text

\* the parts the loop over the children appends
render_children(ns, children, w) ==
    IF children = <<>> THEN <<>>
    ELSE LET child == ns[Head(children)]
             part == IF child.tag = "text" /\ child.pre THEN child.text
                     ELSE IF child.tag = "text" THEN render_text(child.text, w)
                     ELSE html_node_render_block(ns, Head(children), w)
         IN <<part>> \o (IF separated(child) THEN <<<<>>>> ELSE <<>>)
            \o render_children(ns, Tail(children), w)

(***************************************************************************)
(* html_render, one statement at a time                                    *)
(***************************************************************************)
process_inline ==
    /\ pc = "feed" /\ pos = Len(html)
    /\ nodes' = html_node_process_inline(nodes, root_node, FALSE).nodes
    /\ pc' = "text"
    /\ UNCHANGED <<html, pos, width, current_node, pre_level, out, suspended, app, turn>>

process_text ==
    /\ pc = "text"
    /\ nodes' = html_node_process_text(nodes, root_node)
    /\ pc' = "render"
    /\ UNCHANGED <<html, pos, width, current_node, pre_level, out, suspended, app, turn>>

render_block ==
    /\ pc = "render"
    /\ out' = html_node_render_block(nodes, root_node, width)
    /\ pc' = "done"
    /\ UNCHANGED <<html, pos, width, nodes, current_node, pre_level, suspended, app, turn>>

Next ==
    \/ handle_data
    \/ handle_starttag
    \/ handle_endtag
    \/ process_inline
    \/ process_text
    \/ render_block

\* no second call
NoCall == [pc |-> "none"]

\* html_render called from __main__ for --render: app_main does not run
NoApp == [exited |-> "render"]

\* the state html_render starts the parser in, for a document and a width
Start(doc, w) ==
    /\ suspended = NoCall
    /\ app = NoApp
    /\ turn = 0
    /\ html = doc
    /\ pos = 0
    /\ width = w
    /\ nodes = <<HTMLNode("root", <<>>, <<>>, FALSE)>>
    /\ current_node = root_node
    /\ pre_level = 0
    /\ pc = "feed"
    /\ out = <<>>


(***************************************************************************)
(* html_render as a function of the document and the width: what a call    *)
(* returns, whatever was rendered before it                                 *)
(***************************************************************************)
\* HTMLParser(): the fields of a new parser
HTMLParser == [nodes |-> <<HTMLNode("root", <<>>, <<>>, FALSE)>>,
               current_node |-> root_node, pre_level |-> 0]

\* the handler the parser calls for one event
feed_event(p, e) ==
    IF e.kind = "end"
    THEN LET q == endtag(p.nodes, p.current_node, p.pre_level, e.tag)
         IN [p EXCEPT !.current_node = q.current_node, !.pre_level = q.pre_level]
    ELSE LET q == autoclose(p.nodes, p.current_node, p.pre_level)
             lvl == IF e.kind = "start" /\ e.tag = "pre"
                    THEN q.pre_level + 1 ELSE q.pre_level
             node == IF e.kind = "data"
                     THEN HTMLNode("text", <<>>, text_sanitize(e.data), lvl > 0)
                     ELSE HTMLNode(e.tag, sanitize_attrs(e.attrs), <<>>, lvl > 0)
         IN IF e.kind = "start" /\ e.tag \notin HTML_KNOWN_TAGS
            THEN [p EXCEPT !.current_node = q.current_node, !.pre_level = q.pre_level]
            ELSE [nodes |-> html_node_append(p.nodes, q.current_node, node),
                  current_node |-> IF e.kind = "data" THEN q.current_node
                                   ELSE Len(p.nodes) + 1,
                  pre_level |-> lvl]

\* parser.feed: the parser after the first n events of doc
RECURSIVE feed(_, _)
feed(doc, n) == IF n = 0 THEN HTMLParser ELSE feed_event(feed(doc, n - 1), doc[n])

html_render(doc, w) ==
    LET parser == feed(doc, Len(doc))
        flat == html_node_process_inline(parser.nodes, root_node, FALSE).nodes
    IN html_node_render_block(html_node_process_text(flat, root_node), root_node, w)


(***************************************************************************)
(* Several calls of html_render: one after another, and a second one while *)
(* the first is running (each call has its own locals and its own parser)  *)
(***************************************************************************)
\* HTMLParser.pre_level read by a new parser, were "self.pre_level += 1" to
\* write the class attribute: lvl, the pre_level the last parser was left with
class_pre_level_shared(lvl) == lvl

\* HTMLParser.pre_level as a new parser reads it: the class attribute, which
\* stays as declared because "self.pre_level += 1" and "self.pre_level = max(..)"
\* bind an attribute of the instance; lvl is the pre_level of the last parser
class_pre_level(lvl) == HTMLParser.pre_level

\* the locals and the parser of the running call
Call == [html |-> html, pos |-> pos, width |-> width, nodes |-> nodes,
         current_node |-> current_node, pre_level |-> pre_level, pc |-> pc, out |-> out]

\* html_render(doc) is entered: the document and a new parser
Enter(doc) ==
    /\ html' = doc
    /\ pos' = 0
    /\ width' = DefaultWidth
    /\ nodes' = HTMLParser.nodes
    /\ current_node' = HTMLParser.current_node
    /\ pre_level' = class_pre_level(pre_level)
    /\ pc' = "feed"
    /\ out' = <<>>

\* every sequence of at most n elements of S
SeqsUpTo(S, n) == UNION {[1..k -> S] : k \in 0..n}

(***************************************************************************)
(* Documents.  html_render renders the root at DefaultWidth and whatever   *)
(* is nested in blockquote, li and pre at 2 less per level; the small      *)
(* widths are the widths the render(html, width) of the specification is   *)
(* asked for, from 4 up (below that the specification leaves it open).     *)
(***************************************************************************)
Widths == {w \in 1..MaxWidth : w >= 4}

\* documents nested in blockquotes and list items -------------------------
\* k start tags, cycling through the tags of cyc
Nest(cyc, k) == [i \in 1..k |-> StartTag(cyc[((i - 1) % Len(cyc)) + 1])]

DeepCycles == {<<"blockquote">>, <<"li">>, <<"li", "blockquote">>}

DeepTexts ==
    { <<"a", "b", " ", "c", "d">>,
      <<"a", "b", "c", "d", "e", "f", "g">>,
      <<">", "a", " ", "b", "c", " ", "d">>,
      <<"[", "0", "]", " ", "h", "t", "t", "p", ":", "/", "/", "a">> }

DeepEvents ==
    {Data(t) : t \in DeepTexts}
    \cup {StartTag("hr"), StartTag("pre"), StartTag("p"), EndTag("blockquote"), EndTag("li")}

DeepTails == {<<>>} \cup {<<e>> : e \in DeepEvents} \cup {<<d, e>> : d, e \in DeepEvents}

DeepDocs == {Nest(cyc, k) \o tail : cyc \in DeepCycles, k \in 0..MaxDepth, tail \in DeepTails}

InitDeep == \E doc \in DeepDocs, w \in Widths : Start(doc, w)
SpecDeep == InitDeep /\ [][Next]_vars

\* one paragraph, or one reference line ------------------------------------
ParagraphDoc(text) == <<StartTag("p")>> \o DataIf(text) \o <<EndTag("p")>>

WrapTexts == SeqsUpTo({">", " ", "a"}, MaxLen)

\* "[digits]", a separator of spaces, ":" and "-", and a bare URL
RefDigits == {<<"0">>, <<"1", "2">>}
RefSeparators == {<<>>, <<" ">>, <<":", " ">>, <<" ", "-", " ">>, <<" ", " ">>}
RefUrls ==
    { <<"h", "t", "t", "p", ":", "/", "/">>,
      <<"h", "t", "t", "p", "s", ":", "/", "/", "a">>,
      <<"h", "t", "t", "p", ":", "/", "/", "a", "/", "b", "-", "c">> }
RefTexts == {<<"[">> \o d \o <<"]">> \o s \o u : d \in RefDigits, s \in RefSeparators, u \in RefUrls}

\* the reference as the only text of a paragraph, or of k nested blockquotes
RefDoc(k, text) ==
    IF k = 0 THEN ParagraphDoc(text) ELSE Nest(<<"blockquote">>, k) \o <<Data(text)>>

WrapDocs ==
    {ParagraphDoc(t) : t \in WrapTexts} \cup {RefDoc(k, t) : k \in 0..2, t \in RefTexts}

InitWrap == \E doc \in WrapDocs, w \in Widths : Start(doc, w)
SpecWrap == InitWrap /\ [][Next]_vars

\* one anchor -----------------------------------------------------------------
Ellipsis == <<".", ".", ".">>
LinkTexts ==
    {s \o e : s \in SeqsUpTo({"a", " "}, MaxStem), e \in {<<>>, <<".", ".">>, Ellipsis}}
Hrefs == SeqsUpTo({"a", " ", "."}, MaxHref)

LinkDoc(href, text) == <<StartTagHref("a", href)>> \o DataIf(text) \o <<EndTag("a")>>
LinkDocs == {LinkDoc(h, t) : h \in Hrefs, t \in LinkTexts}

InitLink == \E doc \in LinkDocs, w \in Widths \cup {DefaultWidth} : Start(doc, w)
SpecLink == InitLink /\ [][Next]_vars

\* a pre/code block in a paragraph, with or without text around it ---------
Around == <<"a", "b", " ", "c", "d", " ", "e", "f">>
Codes == SeqsUpTo({"x", " ", NL}, MaxCode)

PreDoc(before, code, after) ==
    <<StartTag("p")>> \o (IF before THEN <<Data(Around)>> ELSE <<>>)
    \o <<StartTag("pre"), StartTag("code")>> \o DataIf(code) \o <<EndTag("code"), EndTag("pre")>>
    \o (IF after THEN <<Data(<<NL>> \o Around)>> ELSE <<>>) \o <<EndTag("p")>>
PreDocs == {PreDoc(b, c, a) : b \in BOOLEAN, c \in Codes, a \in BOOLEAN}

InitPre == \E doc \in PreDocs, w \in Widths : Start(doc, w)
SpecPre == InitPre /\ [][Next]_vars

\* lists ------------------------------------------------------------------------
ItemA == <<StartTag("li"), Data(<<"A">>), EndTag("li")>>
ItemB == <<StartTag("li"), Data(<<"B">>), EndTag("li")>>
ItemLong == <<StartTag("li"), Data(<<"C", " ", "d", " ", "e", "f", "g">>), EndTag("li")>>
ItemEmpty == <<StartTag("li"), EndTag("li")>>

ListDoc(tag, items) == <<StartTag(tag)>> \o str_concat(items) \o <<EndTag(tag)>>
ListDocs ==
    {ListDoc(tag, items) : tag \in {"ul", "ol"},
                           items \in SeqsUpTo({ItemA, ItemB, ItemLong, ItemEmpty}, MaxItems)}

ListEvents ==
    {StartTag("ul"), StartTag("li"), EndTag("li"), StartTag("p"), EndTag("p"), Data(<<"A">>)}
SoupDocs == SeqsUpTo(ListEvents, MaxEvents)

InitList ==
    \E doc \in ListDocs \cup SoupDocs, w \in {MaxWidth, DefaultWidth} : Start(doc, w)
SpecList == InitList /\ [][Next]_vars

\* html_render on every document above --------------------------------------
\* one paragraph of words and whitespace of every kind ------------------------
SpaceTexts ==
    {t \in SeqsUpTo({"a", ">", " ", "\n", "\t", "\r"}, MaxSpace) : text_sanitize(t) # <<>>}

SpaceDocs == {ParagraphDoc(t) : t \in SpaceTexts}

InitSpace == \E doc \in SpaceDocs, w \in Widths : Start(doc, w)
SpecSpace == InitSpace /\ [][Next]_vars

\* tag soup inside a paragraph: an inline element, line breaks, an element
\* the parser does not know, closing tags with and without an open element ----
TagEvents ==
    {StartTag("b"), StartTag("br"), EndTag("br"), EndTag("p"),
     StartTag("div"), EndTag("div"), Data(<<"a">>)}
TagDocs == {<<StartTag("p")>> \o doc : doc \in SeqsUpTo(TagEvents, MaxEvents)}

InitTags == \E doc \in TagDocs : Start(doc, DefaultWidth)
SpecTags == InitTags /\ [][Next]_vars

\* rules and line breaks inside a paragraph, followed by text, by elements
\* and by a tag the parser does not know ------------------------------------
VoidEvents ==
    {StartTag("hr"), StartTag("br"), StartTag("b"), EndTag("b"),
     StartTag("div"), Data(<<"a">>)}
VoidDocs == {<<StartTag("p")>> \o doc : doc \in SeqsUpTo(VoidEvents, MaxEvents)}

InitVoid == \E doc \in VoidDocs : Start(doc, DefaultWidth)
SpecVoid == InitVoid /\ [][Next]_vars

\* pre elements and paragraphs, opened and closed in any order ----------------
MarkEvents ==
    {StartTag("pre"), EndTag("pre"), StartTag("p"), EndTag("p"),
     Data(<<"a", " ", " ", "a">>)}
MarkDocs == SeqsUpTo(MarkEvents, MaxEvents)

InitMark == \E doc \in MarkDocs : Start(doc, DefaultWidth)
SpecMark == InitMark /\ [][Next]_vars

\* text, blank text, paragraphs and inline elements in any order: adjacent
\* text nodes to merge, empty ones to prune, inline elements to flatten --------
TreeEvents ==
    {Data(<<"a">>), Data(<<" ">>), StartTag("p"), EndTag("p"),
     StartTag("b"), EndTag("b")}
TreeDocs == SeqsUpTo(TreeEvents, MaxEvents)

InitTree == \E doc \in TreeDocs : Start(doc, DefaultWidth)
SpecTree == InitTree /\ [][Next]_vars

\* an anchor without href in a paragraph, its text plain or in a b element,
\* with text after it -------------------------------------------------------
AnchorDoc(text, bold) ==
    <<StartTag("p"), StartTag("a")>>
    \o (IF bold THEN <<StartTag("b")>> ELSE <<>>) \o DataIf(text)
    \o (IF bold THEN <<EndTag("b")>> ELSE <<>>)
    \o <<EndTag("a"), Data(<<"b">>), EndTag("p")>>
AnchorDocs == {AnchorDoc(t, b) : t \in LinkTexts, b \in BOOLEAN}

InitAnchor == \E doc \in AnchorDocs : Start(doc, DefaultWidth)
SpecAnchor == InitAnchor /\ [][Next]_vars

\* text and line breaks inside a paragraph, a pre element or a b element ------
BreakEvents == {Data(<<"a">>), StartTag("br")}
BreakDoc(tag, inner) == <<StartTag(tag)>> \o inner \o <<EndTag(tag)>>
BreakDocs == {BreakDoc(t, d) : t \in {"p", "pre", "b"}, d \in SeqsUpTo(BreakEvents, MaxEvents)}

InitBreak == \E doc \in BreakDocs : Start(doc, DefaultWidth)
SpecBreak == InitBreak /\ [][Next]_vars

\* one run of text: a word, a b element with pre elements and text in it,
\* a word or a blank, a stray </pre> or none, and a word ----------------------
RunEvents == {StartTag("pre"), EndTag("pre"), Data(<<"x">>)}
RunGaps == {<<>>, <<Data(<<" ">>)>>, <<Data(<<"a">>)>>}
RunDoc(inner, gap, close) ==
    <<Data(<<"a">>), StartTag("b")>> \o inner \o <<EndTag("b")>> \o gap
    \o (IF close THEN <<EndTag("pre")>> ELSE <<>>) \o <<Data(<<"b">>)>>
RunDocs ==
    {RunDoc(i, g, c) : i \in SeqsUpTo(RunEvents, MaxEvents), g \in RunGaps, c \in BOOLEAN}

InitRun == \E doc \in RunDocs : Start(doc, DefaultWidth)
SpecRun == InitRun /\ [][Next]_vars

\* blockquotes, list items and pre elements inside one another, with text of
\* one line and of several -----------------------------------------------------
IndentEvents ==
    {StartTag("blockquote"), StartTag("li"), StartTag("pre"), EndTag("pre"),
     Data(<<"a">>), Data(<<"a", NL, NL, "b">>)}
IndentDocs == SeqsUpTo(IndentEvents, MaxEvents)

InitIndent == \E doc \in IndentDocs : Start(doc, DefaultWidth)
SpecIndent == InitIndent /\ [][Next]_vars

\* calls of html_render, some leaving pre elements open -----------------------
CallEvents == {StartTag("pre"), EndTag("pre"), Data(<<" ", "a", " ", " ", "a">>)}
CallDocs == SeqsUpTo(CallEvents, MaxCallEvents)

\* the next call, after the last one has returned
html_render_again ==
    /\ pc = "done"
    /\ \E doc \in CallDocs : Enter(doc)
    /\ UNCHANGED <<suspended, app, turn>>

\* a second call, entered while the first is running
html_render_meanwhile ==
    /\ suspended = NoCall
    /\ \E doc \in CallDocs : Enter(doc)
    /\ suspended' = Call
    /\ UNCHANGED <<app, turn>>

\* the other of the two calls runs on
switch ==
    /\ suspended # NoCall
    /\ suspended' = Call
    /\ html' = suspended.html
    /\ pos' = suspended.pos
    /\ width' = suspended.width
    /\ nodes' = suspended.nodes
    /\ current_node' = suspended.current_node
    /\ pre_level' = suspended.pre_level
    /\ pc' = suspended.pc
    /\ out' = suspended.out
    /\ UNCHANGED <<app, turn>>

NextCalls ==
    \/ handle_data
    \/ handle_starttag
    \/ handle_endtag
    \/ process_inline
    \/ process_text
    \/ render_block
    \/ html_render_again
    \/ html_render_meanwhile
    \/ switch

InitCalls == \E doc \in CallDocs : Start(doc, DefaultWidth)
SpecCalls == InitCalls /\ [][NextCalls]_vars

Init == InitDeep \/ InitWrap \/ InitLink \/ InitPre \/ InitList \/ InitSpace \/ InitTags \/ InitVoid \/ InitMark \/ InitTree \/ InitAnchor \/ InitBreak \/ InitRun \/ InitIndent
Spec == Init /\ [][Next]_vars

(***************************************************************************)
(* The application: app_main, its AppState, the Message objects and the db *)
(*                                                                         *)
(* A Message object is its index in app.heap, None is 0.  A str that may   *)
(* be None (a body, a flash, a message id) is NoneStr when it is None.     *)
(* The rendered lines of a message and index_tree are not part of the      *)
(* model.                                                                  *)
(***************************************************************************)
NoneStr == "None"

max(x, y) == IF x >= y THEN x ELSE y
min(x, y) == IF x <= y THEN x ELSE y
Greatest(S) == CHOOSE x \in S : \A y \in S : y <= x
Values(f) == {f[x] : x \in DOMAIN f}

\* lst[index] for every index a Python list takes: a negative one counts from
\* the end of the list
list_get_wrapping(lst, index, default) ==
    IF -Len(lst) <= index /\ index < Len(lst)
    THEN lst[((index + Len(lst)) % Len(lst)) + 1]
    ELSE default

\* lst[index] if 0 <= index < len(lst) else default
list_get(lst, index, default) ==
    IF 0 <= index /\ index < Len(lst) THEN lst[index + 1] ELSE default

GROUP_TABS == <<"Front HN", "New HN", "Ask HN", "Show HN", "Lobsters", "Starred">>
Group(label, page) == [label |-> label, page |-> page]
group_set_page(group, page) == [group EXCEPT !.page = page]
group_advance_page(group, offset) == group_set_page(group, max(1, group.page + offset))

MessageFlags == [read |-> FALSE, starred |-> FALSE]
Message(msg_id, thread_id, body, parent, total_comments) ==
    [msg_id |-> msg_id, thread_id |-> thread_id, body |-> body, parent |-> parent,
     children |-> <<>>, flags |-> MessageFlags, read_comments |-> 0,
     total_comments |-> total_comments, index_position |-> 0]
is_loaded(msg) == msg.body # NoneStr
is_read(msg) == msg.flags.read
is_thread(msg) == msg.msg_id = msg.thread_id
is_shown_as_read(msg) ==
    IF is_thread(msg) /\ ~is_loaded(msg) THEN msg.read_comments >= msg.total_comments
    ELSE is_read(msg)

\* the terminal: app_update_layout asks for 25 lines at least
MinLines == 25
Layout == [index_height |-> 0, pager_height |-> None]
app_update_layout(a) ==
    LET max_index_height == MinLines - 3
        index_height == IF a.pager_visible THEN max_index_height \div 3 ELSE max_index_height
        pager_start == 1 + index_height + 1
    IN  [index_height |-> index_height,
         pager_height |-> IF a.pager_visible THEN MinLines - pager_start - 2 ELSE None]
app_render(a) == [a EXCEPT !.layout = app_update_layout(a)]
app_show_flash(a, flash) == app_render([a EXCEPT !.flash = flash])

\* the lines of a message of one line: five header lines and the line
msg_build_lines(msg) == 5 + 1

AppState(group) ==
    [db |-> <<>>, heap |-> <<>>, group |-> group, messages |-> <<>>,
     messages_by_id |-> <<>>, selected_message |-> None, marked_message_id |-> NoneStr,
     layout |-> Layout, pager_visible |-> FALSE, pager_offset |-> 0, flash |-> NoneStr,
     exited |-> NoneStr]

\* an exception nothing catches ends app_main: __main__ prints it and exits
raise(a, e) == [a EXCEPT !.exited = e]

\* INSERT OR REPLACE INTO messages: the row of a message, by its msg_id
db_save_message(db, message) ==
    [id \in DOMAIN db \cup {message.msg_id} |->
        IF id = message.msg_id
        THEN [thread_id |-> message.thread_id, flags |-> message.flags]
        ELSE db[id]]

\* the flags of the rows of the db, set on the messages of messages_by_id
db_load_message_flags(a) ==
    [a EXCEPT !.heap =
        [r \in DOMAIN a.heap |->
            IF /\ a.heap[r].msg_id \in DOMAIN a.messages_by_id \cap DOMAIN a.db
               /\ a.messages_by_id[a.heap[r].msg_id] = r
            THEN [a.heap[r] EXCEPT !.flags = a.db[a.heap[r].msg_id].flags]
            ELSE a.heap[r]]]

\* the number of read rows of each thread, set on the threads among msgs
db_load_read_comments(a, msgs) ==
    LET count(thread_id) ==
            Cardinality({id \in DOMAIN a.db :
                a.db[id].thread_id = thread_id /\ a.db[id].flags.read})
    IN  [a EXCEPT !.heap =
            [r \in DOMAIN a.heap |->
                IF r \in msgs /\ is_thread(a.heap[r]) /\ count(a.heap[r].msg_id) > 0
                THEN [a.heap[r] EXCEPT !.read_comments = count(a.heap[r].msg_id)]
                ELSE a.heap[r]]]

app_refresh_message(a) == [a EXCEPT !.pager_offset = 0]

app_select_message(a, message, show_pager) ==
    LET selected == app_refresh_message([a EXCEPT !.selected_message = message])
        shown == IF show_pager THEN [selected EXCEPT !.pager_visible = TRUE] ELSE selected
        read == [shown EXCEPT !.heap[message].flags.read = TRUE]
        saved == [read EXCEPT !.db = db_save_message(read.db, read.heap[message])]
        thread_id == a.heap[message].thread_id
    IN  IF message = None \/ a.heap[message].body = NoneStr
        THEN [selected EXCEPT !.pager_visible = FALSE]
        ELSE IF ~shown.pager_visible THEN shown
        ELSE IF thread_id \notin DOMAIN a.messages_by_id THEN raise(saved, "KeyError")
        ELSE db_load_read_comments(saved, {saved.messages_by_id[thread_id]})

app_load_messages(a, messages, selected_message_id, show_pager) ==
    LET id == IF selected_message_id = NoneStr /\ a.selected_message # None
              THEN a.heap[a.selected_message].msg_id
              ELSE selected_message_id
        at(r) == {i \in 1..Len(messages) : messages[i] = r}
        with(msg_id) == {i \in 1..Len(messages) : a.heap[messages[i]].msg_id = msg_id}
        selected_message ==
            IF with(id) # {} THEN messages[Greatest(with(id))]
            ELSE IF Len(messages) > 0 THEN messages[1]
            ELSE None
        loaded ==
            [a EXCEPT
                !.heap = [r \in DOMAIN a.heap |->
                            IF at(r) # {}
                            THEN [a.heap[r] EXCEPT !.index_position = Greatest(at(r)) - 1]
                            ELSE a.heap[r]],
                !.messages = messages,
                !.messages_by_id =
                    [msg_id \in {a.heap[messages[i]].msg_id : i \in 1..Len(messages)} |->
                        messages[Greatest(with(msg_id))]]]
        flagged == db_load_message_flags(loaded)
    IN  app_select_message(db_load_read_comments(flagged, Values(flagged.messages_by_id)),
                           selected_message, show_pager)

\* what a call of a fetcher does: it returns ret, or raises
Returns(ret) == [raises |-> NoneStr, ret |-> ret]
Raises(e) == [raises |-> e, ret |-> <<>>]
\* the exceptions "except Exception" catches, and one it does not catch
Exception == {"URLError"}
BaseException == Exception \cup {"KeyboardInterrupt"}

\* ret is the value of fn, None when fn raised an Exception; any other
\* exception leaves app_safe_run
app_safe_run(a, fn, flash) ==
    LET shown == IF flash # NoneStr THEN app_show_flash(a, flash) ELSE a
    IN  IF fn.raises = NoneStr
        THEN [app |-> IF flash # NoneStr THEN app_show_flash(shown, NoneStr) ELSE shown,
              ret |-> {fn.ret}]
        ELSE IF fn.raises \in Exception
        THEN [app |-> app_show_flash(shown, "Error: " \o fn.raises), ret |-> {}]
        ELSE [app |-> raise(shown, fn.raises), ret |-> {}]

\* lst[:index] and lst[index:] of Python, for index >= 0
slice_to(lst, index) == SubSeq(lst, 1, min(index, Len(lst)))
slice_from(lst, index) == SubSeq(lst, min(index, Len(lst)) + 1, Len(lst))

\* the thread of a search hit or of a page of Lobsters: hn_parse_search_hit
\* leaves the body None, lb_parse_thread sets it
hn_parse_search_hit(hit) ==
    Message(hit.id, hit.id, NoneStr, None, hit.num_comments + 1)
lb_parse_thread(thread) ==
    Message(thread.id, thread.id, "<p>url</p>", None, thread.num_comments + 1)
parse_hit(hit) ==
    IF hit.provider = "hn" THEN hn_parse_search_hit(hit) ELSE lb_parse_thread(hit)

\* group.fetch(db, page): the new Message objects of the hits, and the list of them
group_fetch(a, hits) ==
    [app |-> [a EXCEPT !.heap = @ \o [i \in 1..Len(hits) |-> parse_hit(hits[i])]],
     ret |-> [i \in 1..Len(hits) |-> Len(a.heap) + i]]

\* the msg_id of comment k of a thread; the thread itself is its comment 0
entry_id(thread_id, k) == IF k = 0 THEN thread_id ELSE ToString(k) \o "/" \o thread_id

\* group_fetch_thread(thread_id): the new Message objects of a thread whose
\* comment k answers comment parents[k] (0 is the thread), and the thread
group_fetch_thread(a, thread_id, parents) ==
    LET base == Len(a.heap) + 1
        answers(j) == SelectSeq([k \in 1..Len(parents) |-> k], LAMBDA k : parents[k] = j)
        entry(k) ==
            [Message(entry_id(thread_id, k), thread_id, IF k = 0 THEN "" ELSE "text",
                     IF k = 0 THEN None ELSE base + parents[k], 0)
                EXCEPT !.children = [i \in 1..Len(answers(k)) |-> base + answers(k)[i]]]
    IN  [app |-> [a EXCEPT !.heap = @ \o [i \in 1..Len(parents) + 1 |-> entry(i - 1)]],
         ret |-> base]

\* list(msg_flatten_thread(msg)): the message, then each child flattened
RECURSIVE msg_flatten_thread(_, _)
RECURSIVE flatten_children(_, _)
msg_flatten_thread(heap, msg) == <<msg>> \o flatten_children(heap, heap[msg].children)
flatten_children(heap, children) ==
    IF children = <<>> THEN <<>>
    ELSE msg_flatten_thread(heap, Head(children)) \o flatten_children(heap, Tail(children))

msg_unload(msg) == [msg EXCEPT !.children = <<>>, !.body = NoneStr]

app_load_group(a, group, fn) ==
    LET run == app_safe_run(a, fn,
                   "Fetching stories from '" \o group.label
                   \o "' (page " \o ToString(group.page) \o ")...")
        fetched == group_fetch(run.app, fn.ret)
        loaded == app_load_messages(fetched.app, fetched.ret, NoneStr, FALSE)
    IN  IF run.ret = {} THEN run.app
        ELSE IF loaded.exited # NoneStr THEN loaded
        ELSE [loaded EXCEPT !.group = group]

app_close_thread(a) ==
    LET selected_thread_id ==
            IF a.selected_message # None THEN a.heap[a.selected_message].thread_id
            ELSE NoneStr
        filtered_messages == SelectSeq(a.messages, LAMBDA msg : is_thread(a.heap[msg]))
        unloaded ==
            [a EXCEPT !.heap =
                [r \in DOMAIN a.heap |->
                    IF \E i \in 1..Len(filtered_messages) : filtered_messages[i] = r
                    THEN msg_unload(a.heap[r]) ELSE a.heap[r]]]
    IN  app_load_messages(unloaded, filtered_messages, selected_thread_id, FALSE)

\* app_open_thread, were the open thread closed before the new one is fetched
app_open_thread_closing(a, thread_message, fn) ==
    LET closed == app_close_thread(a)
        thread_id == closed.heap[thread_message].thread_id
        run == app_safe_run(closed, fn, "Fetching thread '" \o thread_id \o "'...")
        fetched == group_fetch_thread(run.app, thread_id, fn.ret)
        new_thread_message == fetched.ret
        index_pos == fetched.app.heap[thread_message].index_position
        thread_messages == msg_flatten_thread(fetched.app.heap, new_thread_message)
        counted ==
            [fetched.app EXCEPT
                !.heap[new_thread_message].total_comments = Len(thread_messages)]
        messages ==
            slice_to(fetched.app.messages, index_pos) \o thread_messages
            \o slice_from(fetched.app.messages, index_pos + 1)
    IN  IF closed.exited # NoneStr THEN closed
        ELSE IF run.ret = {} THEN run.app
        ELSE app_load_messages(counted, messages, closed.heap[thread_message].msg_id, TRUE)

\* app_open_thread, were the open thread left open
app_open_thread_keeping(a, thread_message, fn) ==
    LET thread_id == a.heap[thread_message].thread_id
        run == app_safe_run(a, fn, "Fetching thread '" \o thread_id \o "'...")
        fetched == group_fetch_thread(run.app, thread_id, fn.ret)
        new_thread_message == fetched.ret
        index_pos == fetched.app.heap[thread_message].index_position
        thread_messages == msg_flatten_thread(fetched.app.heap, new_thread_message)
        counted ==
            [fetched.app EXCEPT
                !.heap[new_thread_message].total_comments = Len(thread_messages)]
        messages ==
            slice_to(fetched.app.messages, index_pos) \o thread_messages
            \o slice_from(fetched.app.messages, index_pos + 1)
    IN  IF run.ret = {} THEN run.app
        ELSE app_load_messages(counted, messages, a.heap[thread_message].msg_id, TRUE)

app_open_thread(a, thread_message, fn) ==
    LET thread_id == a.heap[thread_message].thread_id
        run == app_safe_run(a, fn, "Fetching thread '" \o thread_id \o "'...")
        fetched == group_fetch_thread(run.app, thread_id, fn.ret)
        new_thread_message == fetched.ret
        closed == app_close_thread(fetched.app)
        index_pos == closed.heap[thread_message].index_position
        thread_messages == msg_flatten_thread(closed.heap, new_thread_message)
        counted ==
            [closed EXCEPT !.heap[new_thread_message].total_comments = Len(thread_messages)]
        messages ==
            slice_to(closed.messages, index_pos) \o thread_messages
            \o slice_from(closed.messages, index_pos + 1)
    IN  IF run.ret = {} THEN run.app
        ELSE IF closed.exited # NoneStr THEN closed
        ELSE app_load_messages(counted, messages, closed.heap[thread_message].msg_id, TRUE)

\* the commands -----------------------------------------------------------------
selected_position(a, offset) ==
    IF a.selected_message # None
    THEN a.heap[a.selected_message].index_position + offset
    ELSE 0

cmd_prev(a) ==
    app_select_message(a, list_get(a.messages, selected_position(a, -1), a.selected_message),
                       FALSE)
cmd_next(a) ==
    app_select_message(a, list_get(a.messages, selected_position(a, 1), a.selected_message),
                       FALSE)

cmd_next_unread(a) ==
    LET index == selected_position(a, 1)
        unread == {i \in index + 1..Len(a.messages) : ~is_shown_as_read(a.heap[a.messages[i]])}
    IN  IF unread = {} THEN a
        ELSE app_select_message(a, a.messages[CHOOSE i \in unread : \A j \in unread : i <= j],
                                FALSE)

cmd_parent(a) ==
    IF a.selected_message # None /\ a.heap[a.selected_message].parent # None
    THEN app_select_message(a, a.heap[a.selected_message].parent, FALSE)
    ELSE a

cmd_mark_set(a) ==
    app_show_flash(IF a.selected_message # None
                   THEN [a EXCEPT !.marked_message_id = a.heap[a.selected_message].msg_id]
                   ELSE a,
                   "Mark set")

cmd_mark_jump(a) ==
    LET marked_msg ==
            IF a.marked_message_id \in DOMAIN a.messages_by_id
            THEN a.messages_by_id[a.marked_message_id] ELSE None
        set == cmd_mark_set(a)
        jumped == IF marked_msg # None THEN app_select_message(set, marked_msg, FALSE) ELSE set
    IN  IF jumped.exited # NoneStr THEN jumped ELSE app_show_flash(jumped, "Mark swapped")

cmd_pager_page_up(a) ==
    IF a.layout.pager_height # None
    THEN [a EXCEPT !.pager_offset = max(0, @ - a.layout.pager_height)]
    ELSE a
cmd_pager_page_down(a) ==
    IF a.selected_message # None /\ a.layout.pager_height # None
    THEN [a EXCEPT !.pager_offset =
            min(@ + a.layout.pager_height,
                max(0, msg_build_lines(a.heap[a.selected_message]) - a.layout.pager_height))]
    ELSE a

cmd_index_page_up(a) ==
    LET index == max(selected_position(a, -a.layout.index_height), 0)
    IN  app_select_message(a, list_get(a.messages, index, a.selected_message), FALSE)
cmd_index_page_down(a) ==
    LET index == min(selected_position(a, a.layout.index_height), Len(a.messages) - 1)
    IN  app_select_message(a, list_get(a.messages, index, a.selected_message), FALSE)

cmd_page_up(a) == IF a.pager_visible THEN cmd_pager_page_up(a) ELSE cmd_index_page_up(a)
cmd_page_down(a) == IF a.pager_visible THEN cmd_pager_page_down(a) ELSE cmd_index_page_down(a)

cmd_load_tab(a, tab, fn) ==
    IF 0 <= tab - 1 /\ tab - 1 < Len(GROUP_TABS)
    THEN app_load_group(a, Group(GROUP_TABS[tab], 1), fn)
    ELSE a
cmd_reload_page(a, fn) == app_load_group(a, a.group, fn)
cmd_load_prev_page(a, fn) == app_load_group(a, group_advance_page(a.group, -1), fn)
cmd_load_next_page(a, fn) == app_load_group(a, group_advance_page(a.group, 1), fn)
\* user_input is what app_prompt returns
isnumeric(s) == \E n \in 0..9 : ToString(n) = s
int(s) == CHOOSE n \in 0..9 : ToString(n) = s
cmd_load_page(a, user_input, fn) ==
    IF isnumeric(user_input) /\ int(user_input) >= 1
    THEN app_load_group(a, group_set_page(a.group, int(user_input)), fn)
    ELSE IF user_input # "" THEN app_show_flash(a, "Invalid page number")
    ELSE a

cmd_open(a, fn) ==
    IF a.selected_message = None THEN a
    ELSE IF is_thread(a.heap[a.selected_message])
    THEN app_open_thread(a, a.selected_message, fn)
    ELSE app_select_message(a, a.selected_message, TRUE)

cmd_close(a) ==
    IF a.pager_visible THEN [a EXCEPT !.pager_visible = FALSE] ELSE app_close_thread(a)

toggle_starred(a, msg) ==
    LET starred == [a EXCEPT !.heap[msg].flags.starred = ~@]
    IN  [starred EXCEPT !.db = db_save_message(starred.db, starred.heap[msg])]

cmd_star(a) ==
    IF a.selected_message # None THEN cmd_next(toggle_starred(a, a.selected_message))
    ELSE a

\* what the network answers -------------------------------------------------------
\* the threads of a group: those of Hacker News, or those of Lobsters
Hits(label) ==
    LET provider == IF label = "Lobsters" THEN "lb" ELSE "hn"
    IN  {[id |-> t \o "@" \o provider, provider |-> provider, num_comments |-> 1] :
            t \in {"1", "2"}}
\* the pages a group may have: lists of threads, no thread twice
Pages(label) ==
    {<<>>} \cup {<<h>> : h \in Hits(label)}
    \cup ({<<h, g>> : h, g \in Hits(label)} \ {<<h, h>> : h \in Hits(label)})
\* the comments a thread may have: comment k answers comment parents[k]
Parents == {<<>>, <<0>>, <<0, 0>>, <<0, 1>>}

PageFetches(label) == {Returns(p) : p \in Pages(label)} \cup {Raises(e) : e \in BaseException}
ThreadFetches == {Returns(p) : p \in Parents} \cup {Raises(e) : e \in BaseException}
\* no fetcher is called
NoFetch == {Returns(<<>>)}

TabKeys == {1, 5, 7}
UserInputs == {"", "x", "0", "2"}

\* app_main: one turn of its loop --------------------------------------------------
Renderer == <<html, pos, width, nodes, current_node, pre_level, pc, out, suspended>>

\* app_render(app); app.flash = ""
ready(a) == [app_render(a) EXCEPT !.flash = ""]
Ready == ready(app)

\* the Message objects something refers to: those of app.messages, of
\* app.messages_by_id and app.selected_message, their parents and children
RECURSIVE referred(_, _)
referred(heap, msgs) ==
    LET more ==
            msgs \cup {heap[r].parent : r \in msgs} \cup
            UNION {{heap[r].children[i] : i \in 1..Len(heap[r].children)} : r \in msgs}
    IN  IF more \ {None} = msgs THEN msgs ELSE referred(heap, more \ {None})

\* Python frees the Message objects nothing refers to; the objects left are
\* numbered anew, those of app.messages first, in the order of the list
collect(a) ==
    LET listed == {a.messages[i] : i \in 1..Len(a.messages)}
        live == referred(a.heap, (listed \cup Values(a.messages_by_id)
                                  \cup {a.selected_message}) \ {None})
        rank(r) ==
            IF r \in listed
            THEN CHOOSE i \in 1..Len(a.messages) :
                    a.messages[i] = r /\ \A j \in 1..i - 1 : a.messages[j] # r
            ELSE Len(a.messages) + r
        new(r) == IF r = None THEN None ELSE Cardinality({q \in live : rank(q) <= rank(r)})
        old(i) == CHOOSE r \in live : new(r) = i
    IN  [a EXCEPT
            !.heap = [i \in 1..Cardinality(live) |->
                        [a.heap[old(i)] EXCEPT
                            !.parent = new(@),
                            !.children = [k \in 1..Len(@) |-> new(@[k])]]],
            !.messages = [i \in 1..Len(a.messages) |-> new(a.messages[i])],
            !.messages_by_id = [id \in DOMAIN a.messages_by_id |-> new(a.messages_by_id[id])],
            !.selected_message = new(a.selected_message)]

\* c = app.screen.getch(); KEY_BINDINGS.get(c, cmd_unknown)(app)
Command(after) ==
    /\ app.exited = NoneStr
    /\ turn < MaxKeys
    /\ turn' = turn + 1
    /\ app' = collect(after)
    /\ UNCHANGED Renderer

key_p == Command(cmd_prev(Ready))
key_n == Command(cmd_next(Ready))
key_N == Command(cmd_next_unread(Ready))
key_P == Command(cmd_parent(Ready))
key_PPAGE == Command(cmd_page_up(Ready))
key_NPAGE == Command(cmd_page_down(Ready))
key_mark_jump == Command(cmd_mark_jump(Ready))
key_x == Command(cmd_close(Ready))
key_s == Command(cmd_star(Ready))
key_RETURN ==
    \E fn \in IF app.selected_message # None /\ is_thread(app.heap[app.selected_message])
               THEN ThreadFetches ELSE NoFetch :
        Command(cmd_open(Ready, fn))
key_tab ==
    \E tab \in TabKeys :
    \E fn \in IF tab <= Len(GROUP_TABS) THEN PageFetches(GROUP_TABS[tab]) ELSE NoFetch :
        Command(cmd_load_tab(Ready, tab, fn))
key_R ==
    \E fn \in PageFetches(app.group.label) : Command(cmd_reload_page(Ready, fn))
key_lt ==
    \E fn \in PageFetches(app.group.label) :
        Command(cmd_load_prev_page(Ready, fn))
key_gt ==
    \E fn \in PageFetches(app.group.label) :
        Command(cmd_load_next_page(Ready, fn))
key_g ==
    \E user_input \in UserInputs :
    \E fn \in IF isnumeric(user_input) /\ int(user_input) >= 1
               THEN PageFetches(app.group.label) ELSE NoFetch :
        Command(cmd_load_page(Ready, user_input, fn))

NextApp ==
    \/ key_p
    \/ key_n
    \/ key_N
    \/ key_P
    \/ key_PPAGE
    \/ key_NPAGE
    \/ key_mark_jump
    \/ key_x
    \/ key_s
    \/ key_RETURN
    \/ key_tab
    \/ key_R
    \/ key_lt
    \/ key_gt
    \/ key_g

\* the key n, pressed k times
RECURSIVE pressed_n(_, _)
pressed_n(a, k) ==
    IF k = 0 \/ a.exited # NoneStr THEN a
    ELSE pressed_n(collect(cmd_next(ready(a))), k - 1)

\* app_main up to its loop: the AppState of the initial tab, and its group loaded
app_main(tab, fn) ==
    collect(app_load_group(AppState(Group(GROUP_TABS[tab], 1)), Group(GROUP_TABS[tab], 1), fn))

\* a session so far: the group loaded, then perhaps the key n some times and
\* RETURN, which opens a thread, then the key n some times and perhaps x
sessions(loaded) ==
    LET opened ==
            {loaded} \cup
            {collect(cmd_open(ready(pressed_n(loaded, row)), thread)) :
                row \in 0..Len(loaded.messages) - 1, thread \in ThreadFetches}
        moved == UNION {{pressed_n(a, k) : k \in 0..Len(a.messages)} : a \in opened}
    IN  moved \cup {collect(cmd_close(ready(a))) : a \in {m \in moved : m.exited = NoneStr}}
Sessions ==
    UNION {UNION {sessions(app_main(tab, fn)) : fn \in PageFetches(GROUP_TABS[tab])} :
            tab \in TabKeys \cap 1..Len(GROUP_TABS)}

InitApp ==
    /\ app \in Sessions
    /\ turn = 0
    /\ suspended = NoCall
    /\ html = <<>>
    /\ pos = 0
    /\ width = DefaultWidth
    /\ nodes = <<HTMLNode("root", <<>>, <<>>, FALSE)>>
    /\ current_node = root_node
    /\ pre_level = 0
    /\ pc = "done"
    /\ out = <<>>
SpecApp == InitApp /\ [][NextApp]_vars

(***************************************************************************)
(* Claims                                                                  *)
(***************************************************************************)
Done == pc = "done"
Returned == pc = "done" /\ out # ValueError

Lines(text) == str_split(text, NL)

HasWhitespace(text) == \E i \in 1..Len(text) : text[i] \in WHITESPACE
NonWhitespace(text) == SelectSeq(text, LAMBDA c : c \notin WHITESPACE)

\* the character data of the document, as the parser receives it
RECURSIVE CharacterData(_)
CharacterData(doc) ==
    IF doc = <<>> THEN <<>>
    ELSE (IF Head(doc).kind = "data" THEN text_sanitize(Head(doc).data) ELSE <<>>)
         \o CharacterData(Tail(doc))

\* where in t the characters s[lo..hi] end when matched in order from position at on,
\* each at its first occurrence; Len(t) + 1 when they are not all there
RECURSIVE MatchEnd(_, _, _, _, _)
MatchEnd(s, lo, hi, t, at) ==
    IF lo > hi THEN at - 1
    ELSE IF lo = hi
    THEN LET found == {i \in (at + 0)..Len(t) : t[i] = s[lo]}
         IN IF found = {} THEN Len(t) + 1 ELSE SetMin(found)
    ELSE LET mid == (lo + hi) \div 2
             left == MatchEnd(s, lo, mid, t, at)
         IN IF left > Len(t) THEN left ELSE MatchEnd(s, mid + 1, hi, t, left + 1)

\* s is t with some characters left out
IsSubsequence(s, t) == MatchEnd(s, 1, Len(s), t, 1) <= Len(t)

\* C1: html_render returns a string for every document, whatever the nesting depth:
\* it never ends with an error.
C1_NeverRaises == Done => out # ValueError

\* C2: every non-whitespace character of the document's character data is in the
\* output of html_render, in document order.
C2_AllTextPresent == Done => IsSubsequence(NonWhitespace(CharacterData(html)), out)

\* What each line of text_wrap(p, w) holds, for a paragraph p of non-preformatted text:
\* "blank" nothing, "pre" text kept for its code indentation, "ref" an unwrapped
\* reference, "word" a single word (after the quote prefix of a continuation line)
\* longer than the width left for it, "text" anything else.
paragraph_kinds(p, w) ==
    IF p = <<>> THEN <<"blank">>
    ELSE IF str_startswith(p, <<" ", " ">>) THEN <<"pre">>
    ELSE IF REFERENCE_REX(p) THEN <<"ref">>
    ELSE LET q == QUOTE_REX(p)
             ls == wrap(p, w, q)
             body(i) == IF i > 1 THEN SubSeq(ls[i], Len(q) + 1, Len(ls[i])) ELSE ls[i]
             room(i) == IF i > 1 THEN w - Len(q) ELSE w
         IN IF ls = <<>> THEN <<"blank">>
            ELSE [i \in 1..Len(ls) |->
                    IF ~HasWhitespace(body(i)) /\ Len(body(i)) > room(i)
                    THEN "word" ELSE "text"]

\* What each line of html_node_render_block(ns, node, w) holds, for a rendering that
\* returns: the kinds above, and "rule" for the dashes of an hr.
RECURSIVE line_kinds(_, _, _), children_kinds(_, _, _)
line_kinds(ns, node, w) ==
    LET w2 == child_width(ns[node].tag, w)
        kinds == (IF ns[node].tag = "hr"
                  THEN <<IF w2 > 0 THEN "rule" ELSE "blank">> ELSE <<>>)
                 \o children_kinds(ns, html_node_children(ns, node), w2)
    IN IF kinds = <<>> THEN <<"blank">> ELSE kinds

children_kinds(ns, children, w) ==
    IF children = <<>> THEN <<>>
    ELSE LET child == ns[Head(children)]
             ps == Lines(child.text)
             kinds == IF child.tag = "text" /\ child.pre THEN [i \in 1..Len(ps) |-> "pre"]
                      ELSE IF child.tag = "text"
                      THEN str_concat([i \in 1..Len(ps) |-> paragraph_kinds(ps[i], w)])
                      ELSE line_kinds(ns, Head(children), w)
         IN kinds \o (IF separated(child) THEN <<"blank">> ELSE <<>>)
            \o children_kinds(ns, Tail(children), w)

OutLines == Lines(out)
OutKinds == line_kinds(nodes, root_node, width)

\* the lines that may be longer than the width, according to C3
Exempt == {"pre", "ref", "word"}

\* the line holds nothing but prefixes of blockquote, li and pre nodes
PrefixOnly(line) == \A k \in 1..Len(line) : line[k] \in {">", "-", "|", " "}

\* C3 as stated: every line of the output is at most the width long, prefixes of the
\* enclosing blockquote, li and pre nodes included, unless it is preformatted text,
\* an unwrapped reference, or a single word longer than the width left for it.
C3_Stated ==
    Returned => /\ Len(OutKinds) = Len(OutLines)
                /\ \A i \in 1..Len(OutLines) :
                      OutKinds[i] \in Exempt \/ Len(OutLines[i]) <= width

\* C3: every line of the output is at most the width long, prefixes included, unless
\* it is preformatted text, an unwrapped reference, a single word longer than the
\* width left for it, or a line that holds nothing but the prefixes of its enclosing
\* nodes (a blank line or an empty rule nested more than half the width deep).
C3_LineWidth ==
    Returned => /\ Len(OutKinds) = Len(OutLines)
                /\ \A i \in 1..Len(OutLines) :
                      \/ OutKinds[i] \in Exempt
                      \/ OutKinds[i] = "blank" /\ PrefixOnly(OutLines[i])
                      \/ Len(OutLines[i]) <= width

\* a wrapped paragraph in a blockquote: one of its lines, prefix included, fills the
\* width to the last or the last but one column
C3_Witness ==
    /\ Returned
    /\ Len(OutKinds) = Len(OutLines)
    /\ \E i, j \in 1..Len(OutLines) :
          /\ i # j
          /\ OutKinds[i] = "text" /\ OutKinds[j] = "text"
          /\ str_startswith(OutLines[i], <<">", " ">>)
          /\ Len(OutLines[i]) >= width - 1

\* the nodes of the tree under node, node included
RECURSIVE Subtree(_, _)
Subtree(ns, node) ==
    LET cs == html_node_children(ns, node)
    IN {node} \cup UNION {Subtree(ns, cs[i]) : i \in 1..Len(cs)}

\* the text nodes of the processed tree
TextNodes == {n \in Subtree(nodes, root_node) : nodes[n].tag = "text"}

\* The quote prefix of a line, "one or more repetitions of '>' optionally followed by
\* a space": its longest prefix made of ">" and of single spaces that follow a ">".
QuotePrefix(text) ==
    LET quoting(k) == \A i \in 1..k : \/ text[i] = ">"
                                      \/ text[i] = " " /\ i > 1 /\ text[i - 1] = ">"
    IN SubSeq(text, 1, SetMax({k \in 0..Len(text) : quoting(k)}))

\* the paragraph of the document is one line of text with a quote prefix, and its
\* rendering has continuation lines
QuoteWrapped ==
    /\ Returned
    /\ \E n \in TextNodes : TextNodes = {n} /\ QuotePrefix(nodes[n].text) # <<>>
    /\ Len(OutLines) > 1

QuoteLine == nodes[CHOOSE n \in TextNodes : TRUE].text

\* what follows the quote prefix on the i-th line of the output
Continued(i) == SubSeq(OutLines[i], Len(QuotePrefix(QuoteLine)) + 1, Len(OutLines[i]))

\* C4 as stated: when a line with a quote prefix is wrapped, every continuation line
\* starts with that same prefix and is at most the width long.
C4_Stated ==
    QuoteWrapped =>
        \A i \in 2..Len(OutLines) :
            /\ str_startswith(OutLines[i], QuotePrefix(QuoteLine))
            /\ Len(OutLines[i]) <= width

\* C4: when a line with a quote prefix is wrapped, every continuation line is that
\* same prefix followed by the next words of the line (the first line and what
\* follows the prefix on the others are the line, split at spaces), and it is at
\* most the width long unless it holds, after the prefix, a single word longer than
\* the width less the prefix.
C4_QuotePreserved ==
    QuoteWrapped =>
        /\ \A i \in 2..Len(OutLines) :
              /\ str_startswith(OutLines[i], QuotePrefix(QuoteLine))
              /\ \/ Len(OutLines[i]) <= width
                 \/ /\ ~HasWhitespace(Continued(i))
                    /\ Len(Continued(i)) > width - Len(QuotePrefix(QuoteLine))
        /\ QuoteLine = str_join(<<" ">>, [i \in 1..Len(OutLines) |->
                                            IF i = 1 THEN OutLines[1] ELSE Continued(i)])

\* ">>a a a" is wrapped into three lines, the second and third starting with ">>"
C4_Witness ==
    /\ QuoteWrapped
    /\ QuotePrefix(QuoteLine) = <<">", ">">>
    /\ Len(OutLines) >= 3
    /\ \A i \in 2..Len(OutLines) : Len(OutLines[i]) <= width

\* the text of an anchor is its href shortened with an ellipsis
Shortened(text, href) ==
    /\ Len(text) >= 3
    /\ SubSeq(text, Len(text) - 2, Len(text)) = Ellipsis
    /\ str_startswith(href, SubSeq(text, 1, Len(text) - 3))

\* the href and the text of the anchor of the document
LinkHref == attrs_get(html[1].attrs, "href")
LinkText == CharacterData(html)
ShortenedLink == html = LinkDoc(LinkHref, LinkText) /\ Shortened(LinkText, LinkHref)

\* C5 as stated: an anchor whose text ends with "..." and whose href starts with the
\* text less the ellipsis renders as exactly the href.
C5_Stated == Done /\ ShortenedLink => out = LinkHref

\* C5: an anchor whose text ends with "..." and whose href starts with the text less
\* the ellipsis renders as the characters of the href and nothing else, the
\* whitespace of the href being treated like that of any text (stripped at the ends,
\* runs made one space, wrapped at the width): exactly the href when it has none.
C5_LinkExpanded ==
    Done /\ ShortenedLink =>
        /\ out # ValueError
        /\ NonWhitespace(out) = NonWhitespace(LinkHref)
        /\ ~HasWhitespace(LinkHref) => out = LinkHref

\* <a href="aa.">a...</a> is rendered as "aa."
C5_Witness ==
    /\ Done
    /\ html = LinkDoc(<<"a", "a", ".">>, <<"a", ".", ".", ".">>)
    /\ out = <<"a", "a", ".">>

\* the document is a reference: in how many blockquotes, and its text
RefDepth == Cardinality({i \in 1..Len(html) : html[i] = StartTag("blockquote")})
RefText == CharacterData(html)
IsReference == RefText \in RefTexts /\ html = RefDoc(RefDepth, RefText)

\* C6: a paragraph that is a numbered reference, a separator of spaces, ":" and "-",
\* and a bare http or https URL is one line of the output, whatever its length and
\* the width, with the number and the URL on it.
C6_ReferenceUnwrapped ==
    Done /\ IsReference =>
        /\ out # ValueError
        /\ Len(OutLines) = 1
        /\ NonWhitespace(out) = str_repeat(">", RefDepth) \o NonWhitespace(RefText)

\* a reference with spaces in it, longer than the width, on one line
C6_Witness ==
    /\ Done
    /\ IsReference /\ HasWhitespace(RefText)
    /\ Len(OutLines) = 1
    /\ Len(out) > width

\* the lines the text around a pre/code block is wrapped into
AroundLines == Lines(text_wrap(Around, width))

\* the document is a pre/code block in a paragraph: whether there is text before
\* and after the block, and the content of the block
Before == html[2].kind = "data"
After == html[Len(html) - 1].kind = "data"
Code == LET i == IF Before THEN 5 ELSE 4
        IN IF html[i].kind = "data" THEN html[i].data ELSE <<>>
IsPreDoc == html = PreDoc(Before, Code, After)

\* the lines of the output that are the block
BlockLines ==
    SubSeq(OutLines,
           (IF Before THEN Len(AroundLines) + 1 ELSE 0) + 1,
           Len(OutLines) - (IF After THEN Len(AroundLines) + 1 ELSE 0))

IsBlank(line) == \A i \in 1..Len(line) : line[i] \in WHITESPACE

\* the lines of the content of a block up to its last line that is not blank, each
\* without the whitespace at its end
ContentLines(code) ==
    LET ls == Lines(code)
        last == SetMax({0} \cup {i \in 1..Len(ls) : ~IsBlank(ls[i])})
    IN [i \in 1..last |-> str_rstrip(ls[i], WHITESPACE)]

Indentation(line) ==
    SetMin({Len(line) + 1} \cup {i \in 1..Len(line) : line[i] # " "}) - 1

\* a line of the block in the output, without the prefix of the block
Unprefixed(line) == SubSeq(line, 3, Len(line))

\* the lines of the content of a block, a line break at the end of the content
\* ending its last line
AllLines(code) ==
    LET ls == Lines(code)
    IN IF ls[Len(ls)] = <<>> THEN SubSeq(ls, 1, Len(ls) - 1) ELSE ls

\* the block in the output is the lines ls, one line each, in their order, each
\* with its leading spaces and its words
BlockIs(ls) ==
    /\ Len(BlockLines) = Len(ls)
    /\ \A i \in 1..Len(ls) :
          LET line == str_rstrip(ls[i], WHITESPACE)
          IN /\ str_startswith(BlockLines[i], <<"|">>)
             /\ Indentation(Unprefixed(BlockLines[i])) = Indentation(line)
             /\ NonWhitespace(Unprefixed(BlockLines[i])) = NonWhitespace(line)
             /\ HasWhitespace(Unprefixed(BlockLines[i])) = HasWhitespace(line)

\* the text before and after the block is wrapped at the width, a blank line away
\* from the block
AroundWrapped ==
    /\ \A i \in 1..Len(AroundLines) : Len(AroundLines[i]) <= width
    /\ Before => SubSeq(OutLines, 1, Len(AroundLines) + 1) = AroundLines \o <<<<>>>>
    /\ After => SubSeq(OutLines, Len(OutLines) - Len(AroundLines), Len(OutLines))
                    = <<<<>>>> \o AroundLines

ChildRendering(child, w) ==
    IF nodes[child].tag = "text" /\ nodes[child].pre THEN nodes[child].text
    ELSE IF nodes[child].tag = "text" THEN render_text(nodes[child].text, w)
    ELSE html_node_render_block(nodes, child, w)

\* the nodes whose rendering is that of their children, without a prefix
Unprefixed_Tags == {"root", "p", "ul", "ol"}

AllChildrenLi(node) ==
    /\ html_node_children(nodes, node) # <<>>
    /\ \A i \in 1..Len(html_node_children(nodes, node)) :
          nodes[html_node_children(nodes, node)[i]].tag = "li"

\* the list of the document: a ul or ol of the tree, all of whose children are li and
\* are rendered
Lists ==
    {n \in Subtree(nodes, root_node) :
        /\ nodes[n].tag \in {"ul", "ol"}
        /\ AllChildrenLi(n)
        /\ \A i \in 1..Len(html_node_children(nodes, n)) :
              ChildRendering(html_node_children(nodes, n)[i], width) # ValueError}

\* the renderings of the items of a list, one after the other with no line between
ItemsJoined(list) ==
    str_join(<<NL>>, [i \in 1..Len(html_node_children(nodes, list)) |->
                        ChildRendering(html_node_children(nodes, list)[i], width)])

\* C9 as stated: the li children of a ul or ol are rendered in document order, each
\* starting with "- ", with no blank line between one and the next.
C9_Stated ==
    Returned =>
        \A n \in Lists :
            /\ html_node_render_block(nodes, n, width) = ItemsJoined(n)
            /\ \A i \in 1..Len(html_node_children(nodes, n)) :
                  str_startswith(ChildRendering(html_node_children(nodes, n)[i], width),
                                 <<"-", " ">>)

\* C9: the li children of a ul or ol are rendered in document order with no blank
\* line between one and the next, each starting with "- ", or with "-" alone on the
\* line when the first line of the item is empty; <ul><li>A</li><li>B</li></ul> is
\* the two lines "- A" and "- B".
C9_ListItems ==
    /\ Returned =>
          \A n \in Lists :
              /\ html_node_render_block(nodes, n, width) = ItemsJoined(n)
              /\ \A i \in 1..Len(html_node_children(nodes, n)) :
                    LET first == Lines(ChildRendering(html_node_children(nodes, n)[i], width))[1]
                    IN str_startswith(first, <<"-", " ">>) \/ first = <<"-">>
    /\ Done /\ html = ListDoc("ul", <<ItemA, ItemB>>)
          => out = <<"-", " ", "A", NL, "-", " ", "B">>

\* a list of three items, the second of them wrapped: four lines, none of them blank
C9_Witness ==
    /\ Returned
    /\ html = ListDoc("ul", <<ItemA, ItemLong, ItemB>>)
    /\ Lists # {}
    /\ OutLines = << <<"-", " ", "A">>, <<"-", " ", "C", " ", "d">>,
                     <<" ", " ", "e", "f", "g">>, <<"-", " ", "B">> >>

\* the renderings of the children, a blank line between two of them unless both are li
RECURSIVE ChildrenJoined(_, _)
ChildrenJoined(children, w) ==
    IF children = <<>> THEN <<>>
    ELSE <<ChildRendering(Head(children), w)>>
         \o (IF Len(children) > 1
                /\ ~(nodes[children[1]].tag = "li" /\ nodes[children[2]].tag = "li")
             THEN <<<<>>>> ELSE <<>>)
         \o ChildrenJoined(Tail(children), w)

\* C10: the rendering of a node is the renderings of its children, two adjacent ones
\* a blank line apart, except that two li follow each other with no blank line; an li
\* followed by a child that is no li is a blank line away from it.
C10_ChildrenSeparated ==
    Returned =>
        \A n \in Subtree(nodes, root_node) :
            /\ nodes[n].tag \in Unprefixed_Tags
            /\ html_node_render_block(nodes, n, width) # ValueError
            => html_node_render_block(nodes, n, width)
                  = str_join(<<NL>>, ChildrenJoined(html_node_children(nodes, n), width))

\* C11 --------------------------------------------------------------------
\* the text with every whitespace run a single space and none at its ends
Canonical(text) ==
    LET spaced == [i \in 1..Len(text) |-> IF text[i] \in WHITESPACE THEN " " ELSE text[i]]
        kept == {i \in 1..Len(text) :
                    /\ spaced[i] = " " => i > 1 /\ spaced[i - 1] # " "
                    /\ spaced[i] = " " => \E j \in (i + 1)..Len(text) : spaced[j] # " "}
    IN [k \in 1..Cardinality(kept) |->
           spaced[CHOOSE i \in kept : Cardinality({j \in kept : j <= i}) = k]]

\* the document is one paragraph of one piece of character data
IsParagraph == Len(html) = 3 /\ html[1] = StartTag("p") /\ html[2].kind = "data"

\* C11: a paragraph renders as the paragraph with every whitespace run (of
\* spaces, tabs, CRs, newlines) a single space and its ends trimmed renders
C11_WhitespaceCanonical ==
    Done /\ IsParagraph
        => out = html_render(ParagraphDoc(Canonical(html[2].data)), width)

\* C12 --------------------------------------------------------------------
\* the sanitized text of the paragraph, shorter than the width
InnerText == text_sanitize(html[2].data)
ShortParagraph == IsParagraph /\ Len(InnerText) < width

\* C12 as stated: a paragraph shorter than the width renders as its
\* sanitized text with the whitespace at its two ends trimmed
C12_Stated == Done /\ ShortParagraph => out = str_strip(InnerText, STRIP_CHARS)

\* C12: a paragraph shorter than the width renders as its sanitized text
\* with the whitespace at its two ends trimmed and every whitespace run
\* inside it a single space
C12_ShortParagraph == Done /\ ShortParagraph => out = Canonical(InnerText)

C12_Witness ==
    /\ Done /\ ShortParagraph
    /\ out = <<"a", " ", "a">>
    /\ Len(InnerText) > 3
    /\ InnerText[1] \in WHITESPACE

\* C13 --------------------------------------------------------------------
\* C13: whatever was rendered before a call of html_render, pre elements
\* left open included, and whatever a second call does while it runs, each
\* call returns what html_render returns for its document alone
C13_Pure ==
    /\ Done => out = html_render(html, width)
    /\ suspended.pc = "done" => suspended.out = html_render(suspended.html, suspended.width)

\* a call has returned leaving a pre element open, and the other call has
\* collapsed the whitespace of the same text
C13_Witness ==
    /\ suspended.pc = "done" /\ suspended.pre_level > 0
    /\ suspended.out = <<"|", " ", " ", "a", " ", " ", "a">>
    /\ Done /\ pre_level = 0
    /\ out = <<"a", " ", "a">>

\* C14 --------------------------------------------------------------------
RecognizedTags == HTML_KNOWN_TAGS \cup {"root", "text"}

\* the events the parser has handled, and those of them it recognizes
Handled == SubSeq(html, 1, pos)
Recognized(doc) == SelectSeq(doc, LAMBDA e : e.kind = "data" \/ e.tag \in HTML_KNOWN_TAGS)

\* C14: while the parser runs, every node has a recognized tag, and the tree
\* is the tree of the recognized events alone: a tag the parser does not know
\* creates no node, closes nothing, and what follows it is attached where it
\* would be attached without it
C14_UnknownIgnored ==
    pc = "feed" =>
        /\ \A n \in 1..Len(nodes) : nodes[n].tag \in RecognizedTags
        /\ nodes = feed(Recognized(Handled), Len(Recognized(Handled))).nodes

\* C15 --------------------------------------------------------------------
\* a node and its ancestors: the open elements when the node is the current node
RECURSIVE Path(_, _)
Path(ns, node) == IF node = None THEN {} ELSE {node} \cup Path(ns, ns[node].parent)

\* the parser is at a recognized closing tag
Closing == Feeding("end") /\ html[pos + 1].tag \in HTML_KNOWN_TAGS

\* the open elements the closing tag matches, and the nearest of them
Matching == {n \in Path(nodes, current_node) : nodes[n].tag = html[pos + 1].tag}
Nearest == CHOOSE n \in Matching : \A m \in Matching : n \in Path(nodes, m) => m = n

ParserAt(n) == feed(html, n)
UnmatchedAt(n) ==
    /\ n >= 1 /\ n <= pos
    /\ html[n].kind = "end" /\ html[n].tag \in HTML_KNOWN_TAGS
    /\ \A m \in Path(ParserAt(n - 1).nodes, ParserAt(n - 1).current_node) :
           ParserAt(n - 1).nodes[m].tag # html[n].tag

\* the event creates a node: character data or a recognized start tag
Content(e) == e.kind = "data" \/ (e.kind = "start" /\ e.tag \in HTML_KNOWN_TAGS)

\* C16: after a recognized closing tag that matches no open element the
\* parser is still running, the current node is the root and the nodes are
\* as they were; the text or element that follows is attached to the root
C16_UnmatchedClose ==
    pc = "feed" =>
        /\ UnmatchedAt(pos) =>
              /\ current_node = root_node
              /\ nodes = ParserAt(pos - 1).nodes
        /\ UnmatchedAt(pos - 1) /\ Content(html[pos]) =>
              /\ Len(nodes) = Len(ParserAt(pos - 1).nodes) + 1
              /\ nodes[Len(nodes)].parent = root_node

\* </br> with no br open has closed the b and the paragraph, and the text
\* that follows is a child of the root
C16_Witness ==
    /\ pc = "feed" /\ pos = 4
    /\ html[2] = StartTag("b") /\ html[3] = EndTag("br") /\ html[4].kind = "data"
    /\ UnmatchedAt(3)
    /\ nodes[4].tag = "text" /\ nodes[4].parent = root_node
    /\ current_node = root_node

\* C17 --------------------------------------------------------------------
\* no hr or br node has a child
AutocloseLeaves ==
    \A n \in 1..Len(nodes) :
        nodes[n].tag \in HTML_AUTOCLOSE_TAGS =>
            /\ nodes[n].first_child = None /\ nodes[n].last_child = None
            /\ \A m \in 1..Len(nodes) : nodes[m].parent # n

\* character data or a start tag arrives while the current node is hr or br
AtAutoclose ==
    /\ Feeding("data") \/ Feeding("start")
    /\ nodes[current_node].tag \in HTML_AUTOCLOSE_TAGS

\* the hr or br is closed, and the node the event creates, if it creates one,
\* is the next sibling of the hr or br under the same parent
AutoClosed ==
    /\ current_node \notin Path(nodes', current_node')
    /\ IF Content(html[pos + 1])
       THEN /\ Len(nodes') = Len(nodes) + 1
            /\ nodes'[Len(nodes')].parent = nodes[current_node].parent
            /\ nodes'[Len(nodes')].prev_sibling = current_node
            /\ nodes'[current_node].next_sibling = Len(nodes')
            /\ nodes'[nodes[current_node].parent].last_child = Len(nodes')
       ELSE nodes' = nodes

\* C17: in every state of the parser and of the passes over the tree no hr
\* or br node has a child; character data or a start tag arriving while the
\* current node is an hr or br closes it, and the new node is attached to its
\* parent as its next sibling
C17_AutoClose == []AutocloseLeaves /\ [][AtAutoclose => AutoClosed]_vars

\* the text after <br> is the sibling of the br node, not its child
C17_Witness ==
    /\ pc = "feed" /\ pos = 3
    /\ html[2] = StartTag("br") /\ html[3].kind = "data"
    /\ nodes[3].tag = "br" /\ nodes[3].first_child = None
    /\ nodes[4].tag = "text" /\ nodes[4].parent = 2 /\ nodes[4].prev_sibling = 3

\* C18 --------------------------------------------------------------------
\* the pre elements among a node and its ancestors
OpenPre(ns, node) == {n \in Path(ns, node) : ns[n].tag = "pre"}

\* C18: while the parser runs, a node is marked preformatted exactly when
\* it is a pre element or was attached inside an open pre element, and
\* pre_level is the number of pre elements open from the root to the current
\* node, whether a pre was closed by </pre> or by the closing tag of one of
\* its ancestors
C18_PreMarking ==
    pc = "feed" =>
        /\ \A n \in 1..Len(nodes) : nodes[n].pre <=> OpenPre(nodes, n) # {}
        /\ pre_level = Cardinality(OpenPre(nodes, current_node))

\* C19 --------------------------------------------------------------------
\* the nodes reachable from the root through first_child and next_sibling
Reachable == Subtree(nodes, root_node)

\* the child list of a node is linked both ways and ends in last_child
ChildListLinked(n) ==
    LET cs == html_node_children(nodes, n)
    IN /\ \A i \in 1..Len(cs) : nodes[cs[i]].parent = n
       /\ \A i, j \in 1..Len(cs) : cs[i] = cs[j] => i = j
       /\ \A i \in 1..Len(cs) :
              nodes[cs[i]].prev_sibling = IF i = 1 THEN None ELSE cs[i - 1]
       /\ nodes[n].last_child = IF cs = <<>> THEN None ELSE cs[Len(cs)]

\* the reachable nodes whose child list holds m
ParentsOf(m) ==
    {n \in Reachable :
        \E i \in 1..Len(html_node_children(nodes, n)) : html_node_children(nodes, n)[i] = m}

\* C19: in every state of the parser and of the passes that flatten, merge and
\* prune, the root has tag "root" and no parent, every other reachable node is
\* in the child list of exactly one node, once, and that node is its parent,
\* next_sibling leads from first_child to last_child with prev_sibling its
\* inverse, and a node that was unlinked is not reachable
C19_TreeStructure ==
    /\ nodes[root_node].tag = "root" /\ nodes[root_node].parent = None
    /\ \A n \in Reachable : ChildListLinked(n)
    /\ \A m \in Reachable \ {root_node} : ParentsOf(m) = {nodes[m].parent}
    /\ \A n \in 1..Len(nodes) : n # root_node /\ nodes[n].parent = None => n \notin Reachable

\* merging has unlinked a text node whose next sibling has a next sibling
C19_Witness ==
    /\ pc = "render"
    /\ \E n \in 1..Len(nodes) : n # root_node /\ nodes[n].parent = None
    /\ \E m \in Reachable :
           /\ nodes[m].tag = "text" /\ nodes[m].prev_sibling = None
           /\ nodes[m].next_sibling # None /\ Len(nodes[m].text) > 1

\* C20 --------------------------------------------------------------------
\* the tree the parser built, before html_node_process_inline
Built == feed(html, Len(html)).nodes

\* the outermost inline elements of the tree the parser built
OutermostInline ==
    {n \in Subtree(Built, root_node) :
        /\ Built[n].tag \in HTML_INLINE_TAGS
        /\ \A m \in Path(Built, n) \ {n} : Built[m].tag \in HTML_BLOCK_TAGS}

\* C20: after html_node_process_inline every reachable node is a block
\* element or a text node, a text node has no children and an element has
\* no text; an inline element is a text node in its place, and everything
\* that was inside it, block elements included, is gone from the tree, the
\* character data of it being in the text of that node
C20_Flattened ==
    pc = "text" =>
        /\ \A n \in Reachable :
              /\ nodes[n].tag \in HTML_BLOCK_TAGS \cup {"text"}
              /\ nodes[n].tag \notin HTML_INLINE_TAGS
              /\ nodes[n].tag = "text" => html_node_children(nodes, n) = <<>>
              /\ nodes[n].tag # "text" => nodes[n].text = <<>>
        /\ \A n \in OutermostInline :
              /\ n \in Reachable /\ nodes[n].tag = "text"
              /\ \A m \in Subtree(Built, n) \ {n} :
                    /\ m \notin Reachable
                    /\ Built[m].tag = "text" => IsSubsequence(Built[m].text, nodes[n].text)

\* the paragraph inside <b> and its text are the text of one node
C20_Witness ==
    /\ pc = "text" /\ Len(html) >= 3
    /\ html[1] = StartTag("b") /\ html[2] = StartTag("p") /\ html[3] = Data(<<"a">>)
    /\ Built[3].tag = "p" /\ Built[3].parent = 2
    /\ nodes[2].tag = "text" /\ nodes[2].text = <<"*", "a", "*">>
    /\ Reachable = {root_node, 2}

\* C21 --------------------------------------------------------------------
\* the anchors without href of the tree the parser built
BareAnchors ==
    {n \in 1..Len(Built) : Built[n].tag = "a" /\ attrs_get(Built[n].attrs, "href") = <<>>}

\* the texts the children of a node of the built tree were flattened to, concatenated
FlattenedChildren(n) ==
    LET cs == html_node_children(Built, n)
    IN str_join(<<>>, [i \in 1..Len(cs) |-> nodes[cs[i]].text])

\* C21: after html_node_process_inline the text of an anchor without href is
\* the concatenation of the texts its children were flattened to, no character
\* added and none removed
C21_BareAnchor ==
    pc = "text" => \A n \in BareAnchors : nodes[n].text = FlattenedChildren(n)

\* C22 --------------------------------------------------------------------
\* the br elements of the document
Breaks == Cardinality({i \in 1..Len(html) : html[i] = StartTag("br")})

\* C22: the sentinel character of a br is never in what html_render returns,
\* wherever the br is: each br of the document is a newline of the output
C22_BreakResolved ==
    Returned =>
        /\ \A i \in 1..Len(out) : out[i] # NUL
        /\ Cardinality({i \in 1..Len(out) : out[i] = NL}) = Breaks

\* C23 --------------------------------------------------------------------
\* html_node_process_text has run
Normalized == pc = "render" \/ pc = "done"

\* C23: after html_node_process_text no node has two adjacent text children
\* with the same preformatted flag, and no text node of the tree is empty
C23_Normalized ==
    Normalized =>
        \A n \in Reachable :
            /\ nodes[n].tag = "text" => nodes[n].text # <<>>
            /\ LET cs == html_node_children(nodes, n)
               IN \A i \in 1..(Len(cs) - 1) :
                      ~ /\ nodes[cs[i]].tag = "text" /\ nodes[cs[i + 1]].tag = "text"
                        /\ nodes[cs[i]].pre = nodes[cs[i + 1]].pre

\* C24 --------------------------------------------------------------------
\* the tags whose rendering is indented
IndentedTags == {"blockquote", "pre", "li"}

\* the width a node of the tree is rendered at
WidthOf(n) ==
    width - 2 * Cardinality({m \in Path(nodes, n) \ {n} : nodes[m].tag \in IndentedTags})

\* the lines of the rendering of a node, and those of its children joined:
\* the node rendered as a paragraph at the width left inside it
BlockOf(n) == Lines(html_node_render_block(nodes, n, WidthOf(n)))
InnerOf(n) ==
    Lines(html_node_render_block([nodes EXCEPT ![n].tag = "p"], n,
                                 IF nodes[n].tag \in IndentedTags THEN WidthOf(n) - 2
                                 ELSE WidthOf(n)))

\* the prefix of line i of the rendering of a node
PrefixOf(n, i) ==
    IF nodes[n].tag = "blockquote" THEN <<">", " ">>
    ELSE IF nodes[n].tag = "pre" THEN <<"|", " ">>
    ELSE IF nodes[n].tag = "li" THEN (IF i = 1 THEN <<"-", " ">> ELSE <<" ", " ">>)
    ELSE <<>>

\* the elements of the tree html_render has rendered
Rendered == {n \in Reachable : nodes[n].tag \notin {"text", "hr"}}

Listed(msg) == \E i \in 1..Len(app.messages) : app.messages[i] = msg
SelectionInvariant ==
    /\ app.selected_message = None <=> app.messages = <<>>
    /\ app.selected_message # None => Listed(app.selected_message)
    /\ \A i \in 1..Len(app.messages) :
        /\ app.heap[app.messages[i]].index_position < Len(app.messages)
        /\ app.messages[app.heap[app.messages[i]].index_position + 1] = app.messages[i]
AtFirst ==
    app.selected_message # None /\ app.heap[app.selected_message].index_position = 0
AtLast ==
    /\ app.selected_message # None
    /\ app.heap[app.selected_message].index_position = Len(app.messages) - 1
SelectionKept ==
    /\ app'.selected_message = app.selected_message
    /\ app'.messages = app.messages
MovesOut ==
    \/ AtFirst /\ (key_p \/ key_PPAGE)
    \/ AtLast /\ (key_n \/ key_NPAGE \/ key_N \/ key_s)
Failing(e) ==
    {cmd_reload_page(Ready, Raises(e)),
     cmd_load_prev_page(Ready, Raises(e)),
     cmd_load_next_page(Ready, Raises(e))}
    \cup {cmd_load_page(Ready, user_input, Raises(e)) :
            user_input \in {u \in UserInputs : isnumeric(u) /\ int(u) >= 1}}
    \cup {cmd_load_tab(Ready, tab, Raises(e)) : tab \in TabKeys \cap 1..Len(GROUP_TABS)}
    \cup (IF app.selected_message # None /\ is_thread(app.heap[app.selected_message])
          THEN {cmd_open(Ready, Raises(e))}
          ELSE {})
FetchFails(e) ==
    /\ app.exited = NoneStr
    /\ turn' = turn + 1
    /\ \E failed \in Failing(e) : app' = collect(failed)
\* layout is what app_render made of pager_visible when it drew the flash
OnlyFlash(e) ==
    /\ app' = [app EXCEPT !.flash = "Error: " \o e, !.layout = app_update_layout(app)]
    /\ app'.exited = NoneStr
\* as stated: whatever the fetcher raises
C26_Stated == [][\A e \in BaseException : FetchFails(e) => OnlyFlash(e)]_vars
C26_FetchFailure == [][\A e \in Exception : FetchFails(e) => OnlyFlash(e)]_vars
\* a fetch has failed while a thread was open and the pager shown
C26_Witness ==
    /\ turn = 1
    /\ app.flash = "Error: URLError"
    /\ app.exited = NoneStr
    /\ app.pager_visible
    /\ \E i \in 1..Len(app.messages) : ~is_thread(app.heap[app.messages[i]])

\* C27: one thread is open at most.  In every state of a session the messages
\* of app.messages that are no threads are the comments of one thread, and
\* they follow the row of that thread with nothing between; and wherever
\* app_main reads a key with the row of a thread selected, RETURN, when the
\* thread is fetched, leaves the rows of the other threads as a list where no
\* thread is open has them, in their order, puts the thread and its comments
\* (each once, an answer after the comment it answers) where the row of the
\* thread is in that list, selects the thread and shows the pager.
Comments == {i \in 1..Len(app.messages) : ~is_thread(app.heap[app.messages[i]])}
OneThread ==
    Comments # {} =>
        \E row \in 1..Len(app.messages) :
            /\ is_thread(app.heap[app.messages[row]])
            /\ Comments = row + 1..row + Cardinality(Comments)
            /\ \A i \in Comments :
                app.heap[app.messages[i]].thread_id = app.heap[app.messages[row]].msg_id
\* app_main reads a key, and the selected message is the row of a thread
Opens ==
    /\ app.exited = NoneStr
    /\ turn < MaxKeys
    /\ app.selected_message # None
    /\ is_thread(app.heap[app.selected_message])
\* opened is app after the command that opens the selected thread
Opened(opened, parents) ==
    LET rows == SelectSeq(app.messages, LAMBDA msg : is_thread(app.heap[msg]))
        row == CHOOSE i \in 1..Len(rows) : rows[i] = app.selected_message
        thread_id == app.heap[app.selected_message].msg_id
        size == Len(parents) + 1
        message(i) == opened.heap[opened.messages[i]]
        at(k) == CHOOSE i \in row..row + size - 1 : message(i).msg_id = entry_id(thread_id, k)
    IN  /\ Len(opened.messages) = Len(rows) - 1 + size
        /\ \A i \in 1..row - 1 :
            message(i).msg_id = app.heap[rows[i]].msg_id /\ is_thread(message(i))
        /\ \A i \in row + 1..Len(rows) :
            /\ message(i - 1 + size).msg_id = app.heap[rows[i]].msg_id
            /\ is_thread(message(i - 1 + size))
        /\ message(row).msg_id = thread_id
        /\ \A k \in 0..size - 1 : \E i \in row..row + size - 1 :
            message(i).msg_id = entry_id(thread_id, k)
        /\ \A k \in 1..size - 1 :
            /\ message(at(k)).thread_id = thread_id
            /\ message(at(k)).parent = opened.messages[at(parents[k])]
            /\ at(parents[k]) < at(k)
        /\ opened.selected_message = opened.messages[row]
        /\ opened.pager_visible
C27_OneThread ==
    /\ OneThread
    /\ Opens => \A parents \in Parents :
                    Opened(collect(cmd_open(Ready, Returns(parents))), parents)
\* the second thread of the list was opened and has comments; the first one
\* had been open before, and is a row
C27_Witness ==
    /\ turn = 1
    /\ Len(app.messages) >= 3
    /\ Comments = 3..Len(app.messages)
    /\ app.selected_message = app.messages[2]
    /\ app.pager_visible
    /\ app.flash = NoneStr
    /\ app.heap[app.messages[1]].msg_id \in DOMAIN app.db
    /\ app.db[app.heap[app.messages[1]].msg_id].flags.read
====
